---------------------------- MODULE Spec2Model ----------------------------
(***************************************************************************)
(* Verification model of the candidate-email extractor.                    *)
(*                                                                         *)
(* Strings are sequences of one-character strings, so that lower-casing,    *)
(* stripping, splitting and substring search are computed and not assumed.  *)
(* Scores are hundredths (0.95 is 95).                                      *)
(***************************************************************************)
EXTENDS Integers, Sequences, FiniteSets, TLC

VARIABLES
    ruleTable,   \* rows of job_automation_keywords, in the order the backend holds them
    repo,        \* FilterRepository: [loaded |-> _filters is not None, filters |-> _filters]
    lastCall,    \* the last call made and what it returned
    ner,         \* SpacyNERExtractor: the keyword tables loaded at construction
    candidates,  \* the candidate list of the call in progress
    memo,        \* an earlier resolver call the caller kept: its arguments and result
    config,      \* the configuration the EmailFilter objects are constructed with
    emailFilter, \* the fields an EmailFilter holds after construction
    tracker,     \* UIDTracker.data: per account the last processed UID and the last run
    workflow,    \* run_workflow.main: where the process is and what it reported
    apiClient,   \* APIClient: the token held and the request being retried
    jobs         \* the raw job listings the classification loop works on

senderVars == <<ruleTable, repo, lastCall>>
resolverVars == <<ner, candidates, memo>>
filterVars == <<config, emailFilter>>
trackerVars == <<tracker>>
processVars == <<workflow, apiClient, jobs>>
vars == <<senderVars, resolverVars, filterVars, trackerVars, processVars>>

\* what the sender-classification calls leave alone
NotSender == <<resolverVars, filterVars, trackerVars, processVars>>

(***************************************************************************)
(* Strings                                                                 *)
(***************************************************************************)
UpperLetters == <<"A", "B", "C", "G", "M", "N", "O", "X", "Z">>
LowerLetters == <<"a", "b", "c", "g", "m", "n", "o", "x", "z">>

LowerChar(c) ==
    IF \E i \in 1..Len(UpperLetters) : UpperLetters[i] = c
    THEN LowerLetters[CHOOSE i \in 1..Len(UpperLetters) : UpperLetters[i] = c]
    ELSE c

UpperChar(c) ==
    IF \E i \in 1..Len(LowerLetters) : LowerLetters[i] = c
    THEN UpperLetters[CHOOSE i \in 1..Len(LowerLetters) : LowerLetters[i] = c]
    ELSE c

\* str.lower()
Lower(s) == [i \in 1..Len(s) |-> LowerChar(s[i])]

\* pat in text
Contains(text, pat) ==
    \E i \in 0..(Len(text) - Len(pat)) : SubSeq(text, i + 1, i + Len(pat)) = pat

RECURSIVE LStrip(_)
LStrip(s) == IF s # <<>> /\ Head(s) = " " THEN LStrip(Tail(s)) ELSE s

RECURSIVE RStrip(_)
RStrip(s) == IF s # <<>> /\ s[Len(s)] = " " THEN RStrip(SubSeq(s, 1, Len(s) - 1)) ELSE s

\* str.strip()
Strip(s) == RStrip(LStrip(s))

HasChar(s, c) == \E i \in 1..Len(s) : s[i] = c

\* index of the first occurrence of c in s (0 when absent)
IndexOf(s, c) == IF HasChar(s, c) THEN CHOOSE i \in 1..Len(s) : s[i] = c /\ \A j \in 1..(i - 1) : s[j] # c ELSE 0

\* re.split on a character class: the pieces between separators, empty pieces kept
RECURSIVE SplitOn(_, _)
SplitOn(s, seps) ==
    IF \A i \in 1..Len(s) : s[i] \notin seps
    THEN <<s>>
    ELSE LET k == CHOOSE i \in 1..Len(s) : s[i] \in seps /\ \A j \in 1..(i - 1) : s[j] \notin seps
         IN  <<SubSeq(s, 1, k - 1)>> \o SplitOn(SubSeq(s, k + 1, Len(s)), seps)

Digits == {"0", "1", "2"}
HexLetters == {"a", "b", "c", "d", "e", "f"}
\* \w of the regular expressions, over the alphabet of the model
WordChars ==
    Digits \cup HexLetters \cup
    {"g", "l", "m", "n", "o", "x", "z", "A", "B", "C", "G", "M", "N", "O", "X", "Z", "_"}

\* The regular expressions of the rule table are of the shape ^literal, literal$,
\* ^literal$ or literal; re.search(pattern, text, re.IGNORECASE).
RegexSearch(pattern, text) ==
    LET anchoredL == pattern # <<>> /\ Head(pattern) = "^"
        p1 == IF anchoredL THEN Tail(pattern) ELSE pattern
        anchoredR == p1 # <<>> /\ p1[Len(p1)] = "$"
        lit == Lower(IF anchoredR THEN SubSeq(p1, 1, Len(p1) - 1) ELSE p1)
        t == Lower(text)
    IN  \E i \in 0..(Len(t) - Len(lit)) :
            /\ SubSeq(t, i + 1, i + Len(lit)) = lit
            /\ anchoredL => i = 0
            /\ anchoredR => i + Len(lit) = Len(t)

(***************************************************************************)
(* Rule table                                                              *)
(***************************************************************************)
\* dict.get('priority', 999): the sort key of a row without a priority
DefaultPriority == 999
\* the priority key is absent from the row
NoPriority == -1

\* category names: 'localpart' in category.lower(), 'domain' in category.lower()
LocalpartCategories == {"blocked_localpart"}
DomainCategories == {"blocked_personal_domain", "allowed_staffing_domain", "blocked_ats_domain"}
ContentCategories == {"recruiter_keywords", "anti_recruiter_keywords"}

Rule(cat, kws, mt, act, prio, active) ==
    [category |-> cat, keywords |-> kws, match_type |-> mt, action |-> act,
     priority |-> prio, is_active |-> active, source |-> "email_extractor",
     weight |-> 1, target |-> "both"]

\* The rows the rule tables of the model are built from.  Two rows share
\* priority 2 and match the same domain with opposite actions.
R_blockDomain == Rule("blocked_personal_domain", <<"G", ".", "c">>, "exact", "block", 2, 1)
R_allowDomain == Rule("allowed_staffing_domain", <<" ", "g", ".", "c", ",", "l", ".", "c">>, "contains", "allow", 2, 1)
R_blockLocal == Rule("blocked_localpart", <<"^", "n", "$">>, "regex", "block", 1, 1)
R_allowEmail == Rule("allowed_email", <<"a", "@", "g">>, "contains", "allow", 3, 1)
R_inactive == Rule("blocked_email", <<"@">>, "contains", "block", 0, 0)
R_noPriority == Rule("blocked_email", <<"@", "l">>, "contains", "block", NoPriority, 1)

RulePool == {R_blockDomain, R_allowDomain, R_blockLocal, R_allowEmail, R_inactive, R_noPriority}

\* the longest rule table of the model
MaxRules == 3

RECURSIVE SeqsUpTo(_, _)
SeqsUpTo(S, n) ==
    IF n = 0 THEN {<<>>}
    ELSE LET shorter == SeqsUpTo(S, n - 1)
         IN  shorter \cup {Append(q, x) : q \in {r \in shorter : Len(r) = n - 1}, x \in S}

PriorityOf(f) == IF f.priority = NoPriority THEN DefaultPriority ELSE f.priority

\* list.sort(key=priority): a stable sort, rows of equal priority keep their order
RECURSIVE InsertByPriority(_, _)
InsertByPriority(sorted, f) ==
    IF sorted = <<>> THEN <<f>>
    ELSE IF PriorityOf(Head(sorted)) <= PriorityOf(f)
         THEN <<Head(sorted)>> \o InsertByPriority(Tail(sorted), f)
         ELSE <<f>> \o sorted

\* the rows are scanned in the order they were supplied
SortByPriority_unsorted(s) == s

RECURSIVE SortByPriority(_)
SortByPriority(s) ==
    IF s = <<>> THEN <<>>
    ELSE InsertByPriority(SortByPriority(SubSeq(s, 1, Len(s) - 1)), s[Len(s)])

IsActiveFilter(f) == f.is_active = 1 /\ f.source = "email_extractor"

\* [k.strip() for k in keywords_str.split(',') if k.strip()]
KeywordList(keywords_str) ==
    LET pieces == SplitOn(keywords_str, {","})
        stripped == [i \in 1..Len(pieces) |-> Strip(pieces[i])]
    IN  SelectSeq(stripped, LAMBDA k : k # <<>>)

(***************************************************************************)
(* FilterRepository (filter_repository.py)                                 *)
(***************************************************************************)
\* load_filters on a response that is a list: keep the active rows, sort them
LoadedFilters(all_filters) == SortByPriority(SelectSeq(all_filters, IsActiveFilter))

\* _matches(text, pattern, match_type)
Repo_matches(text, pattern, match_type) ==
    CASE match_type = "exact" -> text = Lower(pattern)
      [] match_type = "contains" -> Contains(text, Lower(pattern))
      [] match_type = "regex" -> RegexSearch(pattern, text)
      [] OTHER -> FALSE

\* the part of the address a row is matched against, chosen by its category
MatchTarget(category, local_part, domain, email_lower) ==
    IF category \in LocalpartCategories THEN local_part
    ELSE IF category \in DomainCategories THEN domain
    ELSE email_lower

\* one row of the loop of check_email matches the address
FilterMatches(filter_item, email_lower) ==
    LET at == IndexOf(email_lower, "@")
        local_part == SubSeq(email_lower, 1, at - 1)
        domain == SubSeq(email_lower, at + 1, Len(email_lower))
        keywords == KeywordList(filter_item.keywords)
        match_target == MatchTarget(filter_item.category, local_part, domain, email_lower)
    IN  /\ filter_item.keywords # <<>>
        /\ \E i \in 1..Len(keywords) : Repo_matches(match_target, keywords[i], filter_item.match_type)

\* for filter_item in filters: the action of the first row that matches
RECURSIVE FirstMatchAction(_, _)
FirstMatchAction(filters, email_lower) ==
    IF filters = <<>> THEN "None"
    ELSE IF FilterMatches(Head(filters), email_lower) THEN Head(filters).action
    ELSE FirstMatchAction(Tail(filters), email_lower)

\* check_email(email) on the cached list: "allow", "block" or "None"
check_email(filters, email) ==
    IF email = <<>> THEN "None"
    ELSE IF ~HasChar(Lower(email), "@") THEN "block"
    ELSE FirstMatchAction(filters, Lower(email))

\* get_filters(): the cached list, loaded first when nothing is cached.  api_ok
\* says whether the backend answers this fetch with its rows.
RepoAfterLoad(api_ok) ==
    IF api_ok /\ ruleTable # <<>>
    THEN [loaded |-> TRUE, filters |-> LoadedFilters(ruleTable)]
    ELSE repo

RepoAfterGet(api_ok) == IF repo.loaded THEN repo ELSE RepoAfterLoad(api_ok)

(***************************************************************************)
(* EmailFilter, DB-driven (email_filters.py)                               *)
(***************************************************************************)
\* email.utils.parseaddr on the header shapes of the model: the text between
\* angle brackets, else the header without its parenthesised comment
ParseAddr(from_header) ==
    IF HasChar(from_header, "<")
    THEN LET rest == SubSeq(from_header, IndexOf(from_header, "<") + 1, Len(from_header))
             close == IndexOf(rest, ">")
         IN  Strip(IF close = 0 THEN rest ELSE SubSeq(rest, 1, close - 1))
    ELSE IF HasChar(from_header, "(")
    THEN LET open == IndexOf(from_header, "(")
             rest == SubSeq(from_header, open + 1, Len(from_header))
             close == IndexOf(rest, ")")
         IN  Strip(SubSeq(from_header, 1, open - 1)
                   \o (IF close = 0 THEN <<>> ELSE SubSeq(rest, close + 1, Len(rest))))
    ELSE Strip(from_header)

\* _extract_email: the empty sequence stands for None
Bot_extract_email(from_header) ==
    LET email == Strip(Lower(ParseAddr(from_header)))
    IN  IF HasChar(email, "@") THEN email ELSE <<>>

\* _looks_like_random_token
looks_like_random_token(token) ==
    \/ Len(token) >= 10 /\ \E i \in 1..Len(token) : token[i] \in Digits
    \/ Len(token) >= 8 /\ \A i \in 1..Len(token) : token[i] \in HexLetters \cup Digits

\* the rows the SELECT ... WHERE is_active = 1 ORDER BY priority ASC returns
DbRows == SortByPriority(SelectSeq(ruleTable, LAMBDA r : r.is_active = 1 /\ r.priority # NoPriority))

\* _load_rules_from_db: keywords lower-cased and stripped
BotRule(row) == [row EXCEPT !.keywords = KeywordList(Lower(row.keywords))]

Bot_rules ==
    LET rows == SelectSeq(DbRows, LAMBDA r : r.category \notin ContentCategories)
    IN  [i \in 1..Len(rows) |-> BotRule(rows[i])]

\* _rule_matches(email, rule)
Bot_rule_matches(email, rule) ==
    LET at == IndexOf(email, "@")
        local == SubSeq(email, 1, at - 1)
        domain == SubSeq(email, at + 1, Len(email))
    IN  \E i \in 1..Len(rule.keywords) :
            LET kw == rule.keywords[i]
            IN  CASE rule.match_type = "exact" -> email = kw \/ domain = kw \/ local = kw
                  [] rule.match_type = "contains" -> Contains(email, kw)
                  [] rule.match_type = "regex" -> RegexSearch(kw, email)
                  [] OTHER -> FALSE

\* the fallback of check_sender and is_junk_email: some token of the local part
\* looks random
RandomLocalPart(email) ==
    LET local == SubSeq(email, 1, IndexOf(email, "@") - 1)
        tokens == SplitOn(local, {".", "_", "-", "+"})
    IN  \E i \in 1..Len(tokens) : looks_like_random_token(tokens[i])

RECURSIVE Bot_first_rule(_, _)
Bot_first_rule(rules, email) ==
    IF rules = <<>> THEN "None"
    ELSE IF Bot_rule_matches(email, Head(rules)) THEN Head(rules).action
    ELSE Bot_first_rule(Tail(rules), email)

\* check_sender(email_data)
check_sender(from_header) ==
    LET email == Bot_extract_email(from_header)
        by_rule == Bot_first_rule(Bot_rules, email)
    IN  IF email = <<>> THEN "block"
        ELSE IF by_rule # "None" THEN by_rule
        ELSE IF RandomLocalPart(email) THEN "block"
        ELSE "allow"

\* is_junk_email(from_header) of the DB-driven filter
Bot_is_junk_email(from_header) ==
    LET email == Bot_extract_email(from_header)
        by_rule == Bot_first_rule(Bot_rules, email)
    IN  IF email = <<>> THEN TRUE
        ELSE IF by_rule # "None" THEN by_rule = "block"
        ELSE RandomLocalPart(email)

(***************************************************************************)
(* EmailFilter, repository-backed (rules.py)                               *)
(***************************************************************************)
AddrChar(c) == c \in WordChars \cup {".", "-"}

\* the end of the longest run of [\w.-] that starts at i (i - 1 when there is none)
RunEnd(h, i) ==
    CHOOSE j \in (i - 1)..Len(h) :
        /\ \A k \in i..j : AddrChar(h[k])
        /\ j = Len(h) \/ ~AddrChar(h[j + 1])

\* (?:<|\(|^)([\w\.-]+@[\w\.-]+)(?:>|\)|$) matches with its group starting at gs
CleanEmailAt(h, gs) ==
    LET le == RunEnd(h, gs)
    IN  /\ gs <= Len(h)
        /\ le >= gs
        /\ le + 1 <= Len(h)
        /\ h[le + 1] = "@"
        /\ le + 2 <= Len(h)
        /\ LET de == RunEnd(h, le + 2)
           IN  de >= le + 2 /\ (de = Len(h) \/ h[de + 1] \in {">", ")"})

\* _extract_clean_email: the empty sequence stands for ""
extract_clean_email(from_header) ==
    LET h == from_header
        starts == {gs \in 1..Len(h) : (gs = 1 \/ h[gs - 1] \in {"<", "("}) /\ CleanEmailAt(h, gs)}
    IN  IF h = <<>> \/ starts = {} THEN <<>>
        ELSE LET gs == CHOOSE g \in starts : \A o \in starts : g <= o
                 de == RunEnd(h, RunEnd(h, gs) + 2)
             IN  Lower(SubSeq(h, gs, de))

\* is_junk_email(from_header) of the repository-backed filter, on the list
\* get_filters() hands to check_email
Rules_is_junk_email(filters, from_header) ==
    LET email == extract_clean_email(from_header)
    IN  IF email = <<>> \/ ~HasChar(email, "@") THEN TRUE
        ELSE check_email(filters, email) = "block"

(***************************************************************************)
(* Sender classification: addresses, headers, calls                        *)
(***************************************************************************)
E_ag == <<"a", "@", "g", ".", "c">>
E_AG == <<"A", "@", "G", ".", "c">>
E_nl == <<"n", "@", "l", ".", "c">>
E_digit10 == <<"z", "z", "z", "z", "z", "z", "z", "z", "z", "1", "@", "x">>
E_digit9 == <<"z", "z", "z", "z", "z", "z", "z", "z", "1", "@", "x">>
E_alpha10 == <<"z", "z", "z", "z", "z", "z", "z", "z", "z", "z", "@", "x">>
E_hex8 == <<"a", "b", "c", "d", "e", "f", "1", "2", "@", "x">>
E_hex7 == <<"a", "b", "c", "d", "e", "f", "1", "@", "x">>
E_tokens == <<"z", "z", "z", "z", "z", ".", "z", "z", "z", "z", "1", "@", "x">>
E_hexToken == <<"z", "+", "a", "b", "c", "d", "e", "f", "1", "2", "@", "x">>
E_noAt == <<"a", "g">>

EmailPool == {E_ag, E_AG, E_nl, E_digit10, E_digit9, E_alpha10, E_hex8, E_hex7, E_tokens, E_hexToken}

\* arguments of FilterRepository.check_email: addresses, "" and a text without @
EmailArgs == EmailPool \cup {<<>>, E_noAt}

\* From headers: a bare address, Name <address>, and headers no address can be read from
H_angle == <<"Z", " ", "<", "a", "@", "g", ".", "c", ">">>
H_angleUpper == <<"Z", " ", "<", "N", "@", "l", ".", "c", ">">>
H_nameOnly == <<"Z", "z">>
H_angleNoAt == <<"Z", " ", "<", "a", "g", ">">>
H_emptyAngle == <<"Z", " ", "<", ">">>
H_comment == <<"(", "a", "@", "g", ".", "c", ")">>
H_nameBare == <<"Z", " ", "a", "@", "g", ".", "c">>

HeaderPool == EmailPool \cup {<<>>, H_angle, H_angleUpper, H_nameOnly, H_angleNoAt, H_emptyAngle, H_comment, H_nameBare}

\* the keyword categories are absent from the repository: every table is empty
NoTables == [ats_domains |-> <<>>, client_keywords |-> <<>>, generic_terms |-> <<>>]
NoMemo == [kept |-> FALSE]

\* a configuration file without the filters and processing keys
DefaultConfig ==
    [use_ml_classifier |-> "unset", calendar_process |-> "unset", content_score_threshold |-> <<>>]

\* no EmailFilter has been constructed
NoEmailFilter ==
    [use_ml |-> FALSE, ml_loaded |-> FALSE, recruiter_keywords |-> <<>>, anti_recruiter_keywords |-> <<>>]

\* the accounts the tracker can hold, keyed by email.strip().lower()
TrackedAccounts == {E_ag, E_nl}

\* an account last_run.json has no entry for
NoAccount == [tracked |-> FALSE]

\* no UIDTracker is in use: self.data = {}
NoTracker == [account \in TrackedAccounts |-> NoAccount]

\* no workflow process, no APIClient and no classification loop is running
NoWorkflow == [pc |-> "none"]
NoClient == [pc |-> "none"]
NoJobs == <<>>

Call(op, arg, result) == [op |-> op, arg |-> arg, result |-> result]

\* no call is in progress: the caller has taken the result of the last one
IdleOps == {"init", "returned"}

InitSender ==
    /\ ruleTable \in SeqsUpTo(RulePool, MaxRules)
    /\ repo = [loaded |-> FALSE, filters |-> <<>>]
    /\ lastCall = Call("init", <<>>, "None")
    /\ ner = NoTables
    /\ candidates = <<>>
    /\ memo = NoMemo
    /\ config = DefaultConfig
    /\ emailFilter = NoEmailFilter
    /\ tracker = NoTracker
    /\ workflow = NoWorkflow
    /\ apiClient = NoClient
    /\ jobs = NoJobs

\* FilterRepository.load_filters()
load_filters(api_ok) ==
    /\ lastCall.op \in IdleOps
    /\ repo' = RepoAfterLoad(api_ok)
    /\ lastCall' = [op |-> "load_filters", arg |-> <<>>,
                    result |-> IF api_ok /\ ruleTable # <<>> THEN "True" ELSE "False",
                    fetched |-> TRUE]
    /\ UNCHANGED <<ruleTable, NotSender>>

\* FilterRepository.check_email(email): an empty address returns before get_filters();
\* fetched tells whether the call asked the API for the rules
CheckEmail(email, api_ok) ==
    LET after == IF email = <<>> THEN repo ELSE RepoAfterGet(api_ok)
    IN  /\ lastCall.op \in IdleOps
        /\ repo' = after
        /\ lastCall' = [op |-> "check_email", arg |-> email,
                        result |-> check_email(after.filters, email),
                        fetched |-> email # <<>> /\ ~repo.loaded]
        /\ UNCHANGED <<ruleTable, NotSender>>

\* EmailFilter.check_sender (email_filters.py)
CheckSender(from_header) ==
    /\ lastCall.op \in IdleOps
    /\ lastCall' = Call("check_sender", from_header, check_sender(from_header))
    /\ UNCHANGED <<ruleTable, repo, NotSender>>

\* EmailFilter.is_junk_email (email_filters.py)
BotIsJunkEmail(from_header) ==
    /\ lastCall.op \in IdleOps
    /\ lastCall' = Call("bot_is_junk_email", from_header,
                        IF Bot_is_junk_email(from_header) THEN "True" ELSE "False")
    /\ UNCHANGED <<ruleTable, repo, NotSender>>

\* EmailFilter.is_junk_email (rules.py): the repository is consulted, and loaded when
\* nothing is cached, only for a header an address was read from
RulesIsJunkEmail(from_header, api_ok) ==
    LET after == IF extract_clean_email(from_header) = <<>> THEN repo ELSE RepoAfterGet(api_ok)
    IN  /\ lastCall.op \in IdleOps
        /\ repo' = after
        /\ lastCall' = Call("rules_is_junk_email", from_header,
                            IF Rules_is_junk_email(after.filters, from_header) THEN "True" ELSE "False")
        /\ UNCHANGED <<ruleTable, NotSender>>

\* the caller takes the result and the locals of the call are dropped; the next
\* call can be made
Return ==
    /\ lastCall.op \notin IdleOps
    /\ lastCall' = Call("returned", <<>>, "None")
    /\ candidates' = <<>>
    /\ UNCHANGED <<ruleTable, repo, ner, memo, filterVars, trackerVars, processVars>>

NextSender ==
    \/ Return
    \/ /\ lastCall.op \in IdleOps
       /\ \E api_ok \in BOOLEAN : load_filters(api_ok)
    \/ /\ lastCall.op \in IdleOps
       /\ \E email \in EmailArgs, api_ok \in BOOLEAN : CheckEmail(email, api_ok)
    \/ /\ lastCall.op \in IdleOps
       /\ \E h \in HeaderPool : CheckSender(h)
    \/ /\ lastCall.op \in IdleOps
       /\ \E h \in HeaderPool : BotIsJunkEmail(h)
    \/ /\ lastCall.op \in IdleOps
       /\ \E h \in HeaderPool, api_ok \in BOOLEAN : RulesIsJunkEmail(h, api_ok)

SpecSender == InitSender /\ [][NextSender]_vars

(***************************************************************************)
(* Company resolver (ner_util.py)                                          *)
(***************************************************************************)
Score_span == 95
Score_domain == 90
Score_signature == 80
Score_body_intro == 65
Score_ner == 50
Penalty_ats_domain == -40
Penalty_contains_client == -50
Penalty_generic_term == -30
Penalty_too_short == -20
MIN_COMPANY_SCORE == 70
\* the tolerance of the vendor-over-client preference
VendorTolerance == 15

\* COMPANY_SOURCE_SCORES.get(source, 0.50)
COMPANY_SOURCE_SCORES(source) ==
    CASE source = "span" -> Score_span
      [] source = "domain" -> Score_domain
      [] source = "signature" -> Score_signature
      [] source = "body_intro" -> Score_body_intro
      [] source = "ner" -> Score_ner
      [] OTHER -> Score_ner

Max(a, b) == IF a >= b THEN a ELSE b
Min(a, b) == IF a <= b THEN a ELSE b

\* the score is returned as it was summed
Clamp_none(score) == score

\* max(0.0, min(1.0, score))
Clamp(score) == Max(0, Min(100, score))

\* _contains_client_language(text)
contains_client_language(text) ==
    /\ text # <<>>
    /\ ner.client_keywords # <<>>
    /\ \E i \in 1..Len(ner.client_keywords) : Contains(Lower(text), ner.client_keywords[i])

\* the domain is itself an entry of the list
is_ats_domain_exact(domain) ==
    /\ domain # <<>>
    /\ ner.ats_domains # <<>>
    /\ \E i \in 1..Len(ner.ats_domains) : Lower(domain) = ner.ats_domains[i]

\* _is_ats_domain(domain)
is_ats_domain(domain) ==
    /\ domain # <<>>
    /\ ner.ats_domains # <<>>
    /\ \E i \in 1..Len(ner.ats_domains) : Contains(Lower(domain), ner.ats_domains[i])

\* the kind becomes client where client language is found, without the penalty
calculate_company_score_unpenalised(candidate, context) ==
    LET name == candidate.name
        base == COMPANY_SOURCE_SCORES(candidate.source)
        s1 == base + (IF candidate.type = "ats" THEN Penalty_ats_domain ELSE 0)
        client == contains_client_language(context) \/ contains_client_language(name)
        generic == /\ ner.generic_terms # <<>>
                   /\ \E i \in 1..Len(ner.generic_terms) : Contains(Lower(name), ner.generic_terms[i])
        s3 == s1 + (IF generic THEN Penalty_generic_term ELSE 0)
        s4 == s3 + (IF Len(name) < 3 THEN Penalty_too_short ELSE 0)
    IN  [confidence |-> Clamp(s4),
         type |-> IF client THEN "client" ELSE candidate.type]

\* _calculate_company_score(candidate, context): the score, and the kind the call
\* leaves in the candidate
calculate_company_score(candidate, context) ==
    LET name == candidate.name
        base == COMPANY_SOURCE_SCORES(candidate.source)
        s1 == base + (IF candidate.type = "ats" THEN Penalty_ats_domain ELSE 0)
        client == contains_client_language(context) \/ contains_client_language(name)
        s2 == s1 + (IF client THEN Penalty_contains_client ELSE 0)
        generic == /\ ner.generic_terms # <<>>
                   /\ \E i \in 1..Len(ner.generic_terms) : Contains(Lower(name), ner.generic_terms[i])
        s3 == s2 + (IF generic THEN Penalty_generic_term ELSE 0)
        s4 == s3 + (IF Len(name) < 3 THEN Penalty_too_short ELSE 0)
    IN  [confidence |-> Clamp(s4),
         type |-> IF client THEN "client" ELSE candidate.type]

\* candidate['confidence'] = self._calculate_company_score(candidate, context)
Scored(candidate, context) ==
    LET r == calculate_company_score(candidate, context)
    IN  [candidate EXCEPT !.confidence = r.confidence, !.type = r.type]

Candidate(name, source, type) == [name |-> name, source |-> source, confidence |-> 0, type |-> type]

\* email.split('@')[1]
FullDomain(email) == SubSeq(email, IndexOf(email, "@") + 1, Len(email))

\* tldextract.extract(full_domain).domain: the label before the suffix (suffixes of
\* one label; a name of one label is its own root)
RootLabel(domain) ==
    LET labels == SplitOn(domain, {"."})
    IN  IF Len(labels) >= 2 THEN labels[Len(labels) - 1] ELSE labels[1]

\* word.capitalize()
Capitalize(word) == IF word = <<>> THEN <<>> ELSE <<UpperChar(Head(word))>> \o Lower(Tail(word))

RECURSIVE JoinWords(_)
JoinWords(words) ==
    IF words = <<>> THEN <<>>
    ELSE IF Len(words) = 1 THEN Head(words)
    ELSE Head(words) \o <<" ">> \o JoinWords(Tail(words))

\* str.split(): the words between runs of white space
Words(text) == SelectSeq(SplitOn(text, {" "}), LAMBDA w : w # <<>>)

RECURSIVE RStripChars(_, _)
RStripChars(text, chars) ==
    IF text # <<>> /\ text[Len(text)] \in chars
    THEN RStripChars(SubSeq(text, 1, Len(text) - 1), chars)
    ELSE text

\* _clean_company_name with an empty company_suffix_mapping
clean_company_name(company) ==
    IF company = <<>> THEN company
    ELSE RStripChars(JoinWords(Words(company)), {",", ";", ":", " "})

\* company_name.replace('-', ' ').replace('_', ' ')
HyphensToSpaces(name) == [i \in 1..Len(name) |-> IF name[i] \in {"-", "_"} THEN " " ELSE name[i]]

\* ' '.join(word.capitalize() for word in company_name.split())
TitleCase(name) == JoinWords([i \in 1..Len(Words(name)) |-> Capitalize(Words(name)[i])])

\* check_email consults the rules as they were cached before the call
extract_company_from_domain_cached(filters, email) ==
    IF email = <<>> \/ ~HasChar(email, "@") THEN <<>>
    ELSE IF check_email(repo.filters, email) = "block" THEN <<>>
    ELSE IF RootLabel(FullDomain(email)) = <<>> THEN <<>>
    ELSE IF is_ats_domain(FullDomain(email)) THEN <<>>
    ELSE clean_company_name(TitleCase(HyphensToSpaces(RootLabel(FullDomain(email)))))

\* extract_company_from_domain(email): the empty sequence stands for None
extract_company_from_domain(filters, email) ==
    IF email = <<>> \/ ~HasChar(email, "@") THEN <<>>
    ELSE IF check_email(filters, email) = "block" THEN <<>>
    ELSE IF RootLabel(FullDomain(email)) = <<>> THEN <<>>
    ELSE IF is_ats_domain(FullDomain(email)) THEN <<>>
    ELSE clean_company_name(TitleCase(HyphensToSpaces(RootLabel(FullDomain(email)))))

\* candidates: List[CompanyCandidate] = []
InitialCandidates == <<>>

\* the candidates extract_company_with_scoring collects from a message.  span, sig
\* and org are what extract_vendor_from_span, extract_company_from_signature and
\* extract_entities find in html and text.
CollectCandidates(msg, filters) ==
    LET span == IF msg.html # <<>> /\ msg.span # <<>>
                THEN <<Scored(Candidate(msg.span, "span", "vendor"), msg.html)>>
                ELSE <<>>
        domain_company == extract_company_from_domain(filters, msg.email)
        dom == IF msg.email # <<>> /\ domain_company # <<>>
               THEN <<Scored(Candidate(domain_company, "domain",
                                       IF is_ats_domain(FullDomain(msg.email)) THEN "ats" ELSE "vendor"),
                             msg.text)>>
               ELSE <<>>
        sig == IF clean_company_name(msg.sig) # <<>>
               THEN <<Scored(Candidate(clean_company_name(msg.sig), "signature", "unknown"), msg.text)>>
               ELSE <<>>
        org == IF msg.org # <<>>
               THEN <<Scored(Candidate(msg.org, "ner", "unknown"), msg.text)>>
               ELSE <<>>
    IN  InitialCandidates \o span \o dom \o sig \o org

\* every collected candidate passes the minimum score
ValidCandidates_all(cands) == cands

\* [c for c in candidates if c['confidence'] >= MIN_COMPANY_SCORE]
ValidCandidates(cands) == SelectSeq(cands, LAMBDA c : c.confidence >= MIN_COMPANY_SCORE)

\* valid_candidates.sort(key=confidence, reverse=True): stable
RECURSIVE InsertByConfidence(_, _)
InsertByConfidence(sorted, c) ==
    IF sorted = <<>> THEN <<c>>
    ELSE IF Head(sorted).confidence >= c.confidence
         THEN <<Head(sorted)>> \o InsertByConfidence(Tail(sorted), c)
         ELSE <<c>> \o sorted

RECURSIVE SortByConfidence(_)
SortByConfidence(cands) ==
    IF cands = <<>> THEN <<>>
    ELSE InsertByConfidence(SortByConfidence(SubSeq(cands, 1, Len(cands) - 1)), cands[Len(cands)])

\* the best candidate is returned whatever its kind
PreferVendor_never(valid) == valid[1]

\* best = valid_candidates[0], replaced by the first vendor below it that is within
\* the tolerance when best is a client
PreferVendor(valid) ==
    LET close == {i \in 2..Len(valid) :
                     /\ valid[i].type = "vendor"
                     /\ valid[1].type = "client"
                     /\ valid[i].confidence >= valid[1].confidence - VendorTolerance}
    IN  IF close = {} THEN valid[1]
        ELSE valid[CHOOSE i \in close : \A j \in close : i <= j]

\* the selection of extract_company_with_scoring: the empty sequence stands for None
BestCompany(cands) ==
    LET valid == SortByConfidence(ValidCandidates(cands))
    IN  IF valid = <<>> THEN <<>> ELSE PreferVendor(valid).name

(***************************************************************************)
(* C1                                                                      *)
(***************************************************************************)
\* the element of the index set M that decides: smallest priority number, and among
\* the rows of that priority the earliest
Deciding(rows, M) ==
    CHOOSE i \in M : \A j \in M :
        \/ PriorityOf(rows[i]) < PriorityOf(rows[j])
        \/ PriorityOf(rows[i]) = PriorityOf(rows[j]) /\ i <= j

\* the active rows in the order the backend supplied them
SuppliedActive == SelectSeq(ruleTable, IsActiveFilter)
RepoMatching(email) == {i \in 1..Len(SuppliedActive) : FilterMatches(SuppliedActive[i], Lower(email))}

\* the sender rows of the DB-driven filter in the order the database returned them
BotMatching(email) == {i \in 1..Len(Bot_rules) : Bot_rule_matches(email, Bot_rules[i])}

RepoCallWithAddress ==
    lastCall.op = "check_email" /\ repo.loaded /\ HasChar(lastCall.arg, "@")
BotCallWithAddress ==
    lastCall.op = "check_sender" /\ Bot_extract_email(lastCall.arg) # <<>>

\* C1 (as amended): check_email after a load and check_sender return the action of a
\* matching rule with the smallest priority number; when several matching rules share
\* that priority, the earliest of them in the supplied order decides.  A rule with a
\* larger priority number never changes the result, whatever the supplied order.
C1_LowestPriorityFirstSupplied ==
    /\ RepoCallWithAddress =>
          LET M == RepoMatching(lastCall.arg)
          IN  lastCall.result = IF M = {} THEN "None" ELSE SuppliedActive[Deciding(SuppliedActive, M)].action
    /\ BotCallWithAddress =>
          LET email == Bot_extract_email(lastCall.arg)
              M == BotMatching(email)
          IN  M # {} => lastCall.result = Bot_rules[Deciding(Bot_rules, M)].action

\* a rule supplied before the deciding one matches too, has a larger priority number
\* and the opposite action
C1_Witness ==
    /\ RepoCallWithAddress
    /\ LET M == RepoMatching(lastCall.arg)
       IN  /\ M # {}
           /\ \E i \in M :
                 /\ i < Deciding(SuppliedActive, M)
                 /\ PriorityOf(SuppliedActive[i]) > PriorityOf(SuppliedActive[Deciding(SuppliedActive, M)])
                 /\ SuppliedActive[i].action # lastCall.result

\* every order of the rows of a sequence
OrdersOf(rows) ==
    {[i \in 1..Len(rows) |-> rows[f[i]]] : f \in Permutations(1..Len(rows))}

\* C1 as stated: the result does not depend on the order the rules were supplied in
C1_AnySuppliedOrder ==
    RepoCallWithAddress =>
        \A supplied \in OrdersOf(ruleTable) :
            check_email(LoadedFilters(supplied), lastCall.arg) = lastCall.result

(***************************************************************************)
(* C8                                                                      *)
(***************************************************************************)
\* the random-identifier shape as the specification words it
C8_RandomToken(token) ==
    \/ Len(token) >= 10 /\ (\E i \in 1..Len(token) : token[i] \in Digits)
    \/ Len(token) >= 8 /\ (\A i \in 1..Len(token) : token[i] \in Digits \cup HexLetters)

C8_RandomLocal(email) ==
    LET tokens == SplitOn(SubSeq(email, 1, IndexOf(email, "@") - 1), {".", "_", "-", "+"})
    IN  \E i \in 1..Len(tokens) : C8_RandomToken(tokens[i])

\* a header of the last call carries an address that no sender rule matches
C8_BotUnmatched ==
    /\ lastCall.op \in {"check_sender", "bot_is_junk_email"}
    /\ Bot_extract_email(lastCall.arg) # <<>>
    /\ BotMatching(Bot_extract_email(lastCall.arg)) = {}
C8_RulesUnmatched ==
    /\ lastCall.op = "rules_is_junk_email"
    /\ extract_clean_email(lastCall.arg) # <<>>
    /\ \A i \in 1..Len(repo.filters) : ~FilterMatches(repo.filters[i], extract_clean_email(lastCall.arg))

\* the DB-driven filter applies the fallback (email_filters.py)
C8_DbDrivenFallback ==
    C8_BotUnmatched =>
        LET random == C8_RandomLocal(Bot_extract_email(lastCall.arg))
        IN  lastCall.result = IF lastCall.op = "check_sender"
                              THEN (IF random THEN "block" ELSE "allow")
                              ELSE (IF random THEN "True" ELSE "False")

\* C8 as stated: when no sender rule matches an address, the sender is classified
\* block if a token of the local part (split on . _ - +) has 10 or more characters
\* and a digit, or is pure hexadecimal of 8 or more characters; otherwise allow.
C8_RandomTokenFallback ==
    /\ C8_DbDrivenFallback
    /\ C8_RulesUnmatched =>
          lastCall.result = IF C8_RandomLocal(extract_clean_email(lastCall.arg)) THEN "True" ELSE "False"

(***************************************************************************)
(* C9                                                                      *)
(***************************************************************************)
\* the three entry points that take a From header block a header no address with
\* an @ can be read from
C9_HeaderEntryPointsFailClosed ==
    /\ (lastCall.op = "check_sender" /\ Bot_extract_email(lastCall.arg) = <<>>) => lastCall.result = "block"
    /\ (lastCall.op = "bot_is_junk_email" /\ Bot_extract_email(lastCall.arg) = <<>>) => lastCall.result = "True"
    /\ (lastCall.op = "rules_is_junk_email" /\ extract_clean_email(lastCall.arg) = <<>>) => lastCall.result = "True"

\* C9 as stated: a From header from which no address containing @ can be extracted
\* (empty, missing or malformed) is classified block or junk by check_sender, by
\* is_junk_email and by FilterRepository.check_email.
C9_NoAddressIsBlocked ==
    /\ C9_HeaderEntryPointsFailClosed
    /\ (lastCall.op = "check_email" /\ ~HasChar(lastCall.arg, "@")) => lastCall.result = "block"

(***************************************************************************)
(* The resolver called on messages                                         *)
(***************************************************************************)
\* the keyword tables read from the CSV files at construction
LoadedTables ==
    [ats_domains |-> << <<"m", "o">> >>,
     client_keywords |-> << <<"c", "x">> >>,
     generic_terms |-> << <<"g", "n">> >>]

\* the rule tables the filter API serves to the resolver's repository
ResolverTables == {<<R_blockLocal, R_blockDomain>>, <<R_allowDomain, R_blockDomain>>}

\* html bodies with the company extract_vendor_from_span finds in them
SpanParts ==
    {[html |-> <<>>, span |-> <<>>],
     [html |-> <<"z">>, span |-> <<>>],
     [html |-> <<"z">>, span |-> <<"Z", "m", "b">>],
     [html |-> <<"a", " ", "c", "x">>, span |-> <<"Z", "m", "b">>]}

\* sender addresses
SenderEmails ==
    {<<>>,
     <<"n", "a", "b">>,
     <<"a", "@", "g", ".", "c">>,
     <<"n", "@", "a", "b", "-", "c", ".", "c">>,
     <<"a", "@", "x", ".", "m", "o", ".", "c">>}

\* body texts with the signature line extract_company_from_signature accepts in
\* them and the ORG entity extract_entities finds in them
TextParts ==
    {[text |-> <<>>, sig |-> <<>>, org |-> <<>>],
     [text |-> <<"z">>, sig |-> <<"Z", "a", " ", " ", "b", ";">>, org |-> <<>>],
     [text |-> <<"a", " ", "C", "x">>, sig |-> <<"Z", "a", " ", " ", "b", ";">>, org |-> <<"N", "a", "b">>]}

MessagePool ==
    {[html |-> s.html, span |-> s.span, email |-> e, text |-> t.text, sig |-> t.sig, org |-> t.org] :
        s \in SpanParts, e \in SenderEmails, t \in TextParts}

InitResolve ==
    /\ ruleTable \in ResolverTables
    /\ repo = [loaded |-> FALSE, filters |-> <<>>]
    /\ lastCall = Call("init", <<>>, "None")
    /\ ner \in {NoTables, LoadedTables}
    /\ candidates = <<>>
    /\ memo = NoMemo
    /\ config = DefaultConfig
    /\ emailFilter = NoEmailFilter
    /\ tracker = NoTracker
    /\ workflow = NoWorkflow
    /\ apiClient = NoClient
    /\ jobs = NoJobs

\* extract_company_with_scoring(text, email, html): the repository is consulted,
\* and loaded on first use, when the address has an @
Resolve(msg, api_ok) ==
    /\ lastCall.op \in IdleOps
    /\ repo' = IF msg.email # <<>> /\ HasChar(msg.email, "@") THEN RepoAfterGet(api_ok) ELSE repo
    /\ candidates' = CollectCandidates(msg, repo'.filters)
    /\ lastCall' = [op |-> "resolve", arg |-> msg, result |-> BestCompany(candidates'),
                    filters |-> repo'.filters]
    /\ UNCHANGED <<ruleTable, ner, memo, filterVars, trackerVars, processVars>>

\* the caller takes the result of a resolver call and keeps it for comparison
ReturnAndKeep ==
    /\ lastCall.op = "resolve"
    /\ memo' = [kept |-> TRUE, arg |-> lastCall.arg, result |-> lastCall.result,
                filters |-> lastCall.filters]
    /\ lastCall' = Call("returned", <<>>, "None")
    /\ candidates' = <<>>
    /\ UNCHANGED <<ruleTable, repo, ner, filterVars, trackerVars, processVars>>

NextResolve ==
    \/ Return
    \/ ReturnAndKeep
    \/ /\ lastCall.op \in IdleOps
       /\ \E msg \in MessagePool, api_ok \in (IF repo.loaded THEN {TRUE} ELSE BOOLEAN) : Resolve(msg, api_ok)

SpecResolve == InitResolve /\ [][NextResolve]_vars

(***************************************************************************)
(* The scoring function and the selection step applied to their inputs     *)
(***************************************************************************)
ScoreNames ==
    {<<"Z", "m", "b">>, <<"Z", "m">>, <<"G", "n", "b">>, <<"G", "n">>,
     <<"C", "x", "z">>, <<"C", "x">>}

\* "header" is a source without an entry in COMPANY_SOURCE_SCORES
ScoreSources == {"span", "domain", "signature", "body_intro", "ner", "header"}

CandidateKinds == {"vendor", "client", "ats", "unknown"}

ScoreContexts == {<<>>, <<"z">>, <<"a", " ", "C", "x">>}

ScoredCandidate(name, source, confidence, type) ==
    [name |-> name, source |-> source, confidence |-> confidence, type |-> type]

\* scored candidates as the selection step receives them
CandPool ==
    {ScoredCandidate(<<"c", "8", "5">>, "span", 85, "client"),
     ScoredCandidate(<<"c", "9", "5">>, "span", 95, "client"),
     ScoredCandidate(<<"v", "8", "0">>, "domain", 80, "vendor"),
     ScoredCandidate(<<"v", "7", "5">>, "domain", 75, "vendor"),
     ScoredCandidate(<<"v", "7", "0">>, "signature", 70, "vendor"),
     ScoredCandidate(<<"v", "6", "0">>, "signature", 60, "vendor"),
     ScoredCandidate(<<"u", "8", "0">>, "signature", 80, "unknown")}

MaxCandidates == 3

InitScoring ==
    /\ ruleTable = <<>>
    /\ repo = [loaded |-> FALSE, filters |-> <<>>]
    /\ lastCall = Call("init", <<>>, "None")
    /\ ner \in {NoTables, LoadedTables}
    /\ candidates = <<>>
    /\ memo = NoMemo
    /\ config = DefaultConfig
    /\ emailFilter = NoEmailFilter
    /\ tracker = NoTracker
    /\ workflow = NoWorkflow
    /\ apiClient = NoClient
    /\ jobs = NoJobs

\* candidate['confidence'] = self._calculate_company_score(candidate, context)
CalculateCompanyScore(candidate, context) ==
    /\ lastCall.op \in IdleOps
    /\ candidates' = <<Scored(candidate, context)>>
    /\ lastCall' = Call("calculate_company_score", [candidate |-> candidate, context |-> context],
                        calculate_company_score(candidate, context).confidence)
    /\ UNCHANGED <<ruleTable, repo, ner, memo, filterVars, trackerVars, processVars>>

\* the selection step of extract_company_with_scoring on a list of scored candidates
SelectCompany(cands) ==
    /\ lastCall.op \in IdleOps
    /\ candidates' = cands
    /\ lastCall' = Call("select", cands, BestCompany(cands))
    /\ UNCHANGED <<ruleTable, repo, ner, memo, filterVars, trackerVars, processVars>>

NextScoring ==
    \/ Return
    \/ /\ lastCall.op \in IdleOps
       /\ \E name \in ScoreNames, source \in ScoreSources, type \in CandidateKinds, context \in ScoreContexts :
             CalculateCompanyScore(Candidate(name, source, type), context)
    \/ /\ lastCall.op \in IdleOps
       /\ \E cands \in SeqsUpTo(CandPool, MaxCandidates) : SelectCompany(cands)

SpecScoring == InitScoring /\ [][NextScoring]_vars

(***************************************************************************)
(* C2  vendor preferred over a client that leads by at most 0.15           *)
(***************************************************************************)
\* the candidates left after the threshold, best first
C2_Ranked == SortByConfidence(ValidCandidates(lastCall.arg))

\* the positions below the top holding a vendor within 0.15 of the top
C2_CloseVendors ==
    {i \in 2..Len(C2_Ranked) :
        /\ C2_Ranked[i].type = "vendor"
        /\ C2_Ranked[i].confidence + 15 >= C2_Ranked[1].confidence}

\* C2: once the candidates below 0.70 are discarded and the rest are ranked by
\* confidence, the selection returns the highest-ranked vendor within 0.15 of
\* the top when the top is a client and such a vendor exists, and the top
\* candidate in every other case.
C2_VendorOverClient ==
    (lastCall.op = "select" /\ C2_Ranked # <<>>) =>
        IF C2_Ranked[1].type = "client" /\ C2_CloseVendors # {}
        THEN \E i \in C2_CloseVendors :
                /\ \A j \in C2_CloseVendors : i <= j
                /\ lastCall.result = C2_Ranked[i].name
        ELSE lastCall.result = C2_Ranked[1].name

\* a client at 0.85 leads, an unknown at 0.80 is second, vendors at 0.75 and
\* 0.70 follow: the vendor at 0.75 is returned
C2_Witness ==
    /\ lastCall.op = "select"
    /\ Len(C2_Ranked) >= 3
    /\ C2_Ranked[1].type = "client" /\ C2_Ranked[1].confidence = 85
    /\ C2_Ranked[2].type = "unknown"
    /\ C2_Ranked[3].type = "vendor" /\ C2_Ranked[3].confidence = 75
    /\ lastCall.result = C2_Ranked[3].name

(***************************************************************************)
(* C3  nothing below 0.70 is returned                                      *)
(***************************************************************************)
\* C3: a resolver call returns None when it collected no candidate or none with
\* confidence at least 0.70, and a company it returns is the name of a
\* collected candidate with confidence at least 0.70.
C3_MinimumScore ==
    lastCall.op = "resolve" =>
        /\ (\A i \in 1..Len(candidates) : candidates[i].confidence < 70) => lastCall.result = <<>>
        /\ lastCall.result # <<>> =>
               \E i \in 1..Len(candidates) :
                   candidates[i].name = lastCall.result /\ candidates[i].confidence >= 70

\* a call that collected candidates on both sides of the threshold and returned one
C3_Witness ==
    /\ lastCall.op = "resolve"
    /\ lastCall.result # <<>>
    /\ \E i \in 1..Len(candidates) : candidates[i].confidence < 70
    /\ \E i \in 1..Len(candidates) : candidates[i].confidence = 70

(***************************************************************************)
(* C4  confidence = prior + penalties, clamped                             *)
(***************************************************************************)
C4_Prior(source) ==
    IF source = "span" THEN 95
    ELSE IF source = "domain" THEN 90
    ELSE IF source = "signature" THEN 80
    ELSE IF source = "body_intro" THEN 65
    ELSE 50

C4_Occurs(keywords, text) == \E i \in 1..Len(keywords) : Contains(Lower(text), keywords[i])

\* the penalties that apply to a candidate scored in a context
C4_Penalties(c, context) ==
    {p \in {<<"ats", 40>>, <<"client", 50>>, <<"generic", 30>>, <<"short", 20>>} :
        \/ p[1] = "ats" /\ c.type = "ats"
        \/ p[1] = "client" /\ (C4_Occurs(ner.client_keywords, context) \/ C4_Occurs(ner.client_keywords, c.name))
        \/ p[1] = "generic" /\ C4_Occurs(ner.generic_terms, c.name)
        \/ p[1] = "short" /\ Len(c.name) < 3}

RECURSIVE C4_Sum(_)
C4_Sum(ps) == IF ps = {} THEN 0 ELSE LET p == CHOOSE q \in ps : TRUE IN p[2] + C4_Sum(ps \ {p})

C4_Raw(c, context) == C4_Prior(c.source) - C4_Sum(C4_Penalties(c, context))

\* C4: the confidence of a scored candidate is the prior of its source plus
\* every applicable penalty, brought into the range 0 to 1; the candidate's
\* kind becomes client exactly with the client penalty and is otherwise left,
\* and the confidence the candidate arrived with plays no part.
C4_PriorPlusPenalties ==
    lastCall.op = "calculate_company_score" =>
        LET c == lastCall.arg.candidate
            raw == C4_Raw(c, lastCall.arg.context)
        IN  /\ lastCall.result = (IF raw < 0 THEN 0 ELSE IF raw > 100 THEN 100 ELSE raw)
            /\ candidates[1].confidence = lastCall.result
            /\ candidates[1].type =
                   (IF <<"client", 50>> \in C4_Penalties(c, lastCall.arg.context) THEN "client" ELSE c.type)

\* three penalties on a signature candidate bring the sum below 0
C4_Witness ==
    /\ lastCall.op = "calculate_company_score"
    /\ lastCall.arg.candidate.source = "signature"
    /\ Cardinality(C4_Penalties(lastCall.arg.candidate, lastCall.arg.context)) >= 3
    /\ C4_Raw(lastCall.arg.candidate, lastCall.arg.context) < 0
    /\ lastCall.result = 0

DefaultThreshold == 2
\* if anti_keyword_count >= 4
AntiKeywordVeto == 4

ContentRule(cat, kws, weight, target, prio) ==
    [Rule(cat, kws, "contains", "allow", prio, 1) EXCEPT !.weight = weight, !.target = target]

\* content rows: the second list of anti-recruiter keywords stores one keyword
\* with a capital letter
R_recruiterKw == ContentRule("recruiter_keywords", <<"g", ",", "n">>, 1, "both", 5)
R_antiKw == ContentRule("anti_recruiter_keywords", <<"0", ",", " ", "1", ",", "2", ",", "z">>, -1, "both", 6)
R_antiKwUpper == ContentRule("anti_recruiter_keywords", <<"0", ",", "1", ",", "2", ",", "X">>, -1, "both", 6)

\* content rows with a weight and a target of their own
R_subjectWeighted == ContentRule("recruiter_keywords", <<"g", ",", "z">>, 2, "subject", 7)
R_bodyWeighted == ContentRule("recruiter_keywords", <<"n">>, 3, "body", 8)

RecruiterTables ==
    {<<R_blockDomain, R_recruiterKw, R_antiKw>>, <<R_blockDomain, R_recruiterKw, R_antiKwUpper>>,
     <<R_blockDomain, R_recruiterKw, R_subjectWeighted, R_bodyWeighted>>}

\* the configurations: every setting of the classifier and calendar switches
\* without a content_score_threshold, and the default switches with a
\* threshold below and above the default
ConfigPool ==
    [use_ml_classifier : {"unset", "true"}, calendar_process : {"unset", "true", "false"},
     content_score_threshold : {<<>>}]
    \cup {[DefaultConfig EXCEPT !.content_score_threshold = <<t>>] : t \in {1, 5}}

\* config.get("filters", {}).get("content_score_threshold", 2)
content_score_threshold(cfg) ==
    IF cfg.content_score_threshold = <<>> THEN DefaultThreshold ELSE cfg.content_score_threshold[1]

\* config.get('filters', {}).get('use_ml_classifier', False)
UseMlConfigured(cfg) == cfg.use_ml_classifier = "true"

\* calendar processing is on only when the configuration says so
CalendarEnabled_explicit(cfg) == cfg.calendar_process = "true"

\* config.get('processing', {}).get('calendar_invites', {}).get('process', True)
CalendarEnabled(cfg) == cfg.calendar_process # "false"

\* the model files under ml_model_dir
ModelFiles == {"ok", "missing", "corrupt"}

\* _load_ml_model: use_ml is switched off unless both files exist and load
load_ml_model(enabled, files) ==
    [use_ml |-> enabled /\ files = "ok", ml_loaded |-> enabled /\ files = "ok"]

\* get_keyword_lists()[category]: result[category] is overwritten by every later
\* row of the category whose keywords string is not empty
RECURSIVE get_keyword_lists(_, _)
get_keyword_lists(filters, category) ==
    IF filters = <<>> THEN <<>>
    ELSE IF filters[Len(filters)].category = category /\ filters[Len(filters)].keywords # <<>>
         THEN KeywordList(filters[Len(filters)].keywords)
         ELSE get_keyword_lists(SubSeq(filters, 1, Len(filters) - 1), category)

\* what the classifier does with one text: "recruiter", "other" or "raises"
Inferences == {"recruiter", "other", "raises"}

\* MLFilter.predict_recruiter: None on inference failure
predict_recruiter(inference) ==
    IF ~emailFilter.ml_loaded \/ inference = "raises" THEN "None"
    ELSE IF inference = "recruiter" THEN "True" ELSE "False"

\* _classify_with_ml
classify_with_ml(inference) == IF ~emailFilter.ml_loaded THEN "None" ELSE predict_recruiter(inference)

\* sum(1 for kw in keywords if kw in text)
CountIn(keywords, text) == Cardinality({i \in 1..Len(keywords) : Contains(text, keywords[i])})

\* anti_keyword_count >= 4
AntiVeto(count) == count >= AntiKeywordVeto

\* _classify_with_rules(subject, body)
classify_with_rules(subject, body) ==
    LET subject_lower == Lower(subject)
        body_lower == Lower(body)
        text == subject_lower \o <<" ">> \o body_lower
        subject_keyword_count == CountIn(emailFilter.recruiter_keywords, subject_lower)
        body_keyword_count == CountIn(emailFilter.recruiter_keywords, body_lower)
    IN  IF AntiVeto(CountIn(emailFilter.anti_recruiter_keywords, text)) THEN FALSE
        ELSE \/ subject_keyword_count >= 1
             \/ body_keyword_count >= 2
             \/ subject_keyword_count + body_keyword_count >= 1

\* EmailFilter.is_recruiter_email (rules.py)
Rules_is_recruiter_email(filters, subject, body, from_email, inference) ==
    IF Rules_is_junk_email(filters, from_email) THEN FALSE
    ELSE IF emailFilter.use_ml /\ classify_with_ml(inference) # "None"
         THEN classify_with_ml(inference) = "True"
         ELSE classify_with_rules(subject, body)

\* self.content_rules (email_filters.py)
Bot_content_rules ==
    LET rows == SelectSeq(DbRows, LAMBDA r : r.category \in ContentCategories)
    IN  [i \in 1..Len(rows) |-> BotRule(rows[i])]

\* one keyword of a content rule is present in the field the rule targets
KeywordHit(rule, kw, subject_lower, body_lower) ==
    \/ rule.target \in {"subject", "both"} /\ Contains(subject_lower, kw)
    \/ rule.target \in {"body", "both"} /\ Contains(body_lower, kw)

\* the weight added once for the subject and once for the body
RECURSIVE RuleScore_perField(_, _, _, _)
RuleScore_perField(rule, k, subject_lower, body_lower) ==
    IF k = 0 THEN 0
    ELSE RuleScore_perField(rule, k - 1, subject_lower, body_lower)
         + (IF rule.target \in {"subject", "both"} /\ Contains(subject_lower, rule.keywords[k])
            THEN rule.weight ELSE 0)
         + (IF rule.target \in {"body", "both"} /\ Contains(body_lower, rule.keywords[k])
            THEN rule.weight ELSE 0)

RECURSIVE RuleScore(_, _, _, _)
RuleScore(rule, k, subject_lower, body_lower) ==
    IF k = 0 THEN 0
    ELSE RuleScore(rule, k - 1, subject_lower, body_lower)
         + (IF KeywordHit(rule, rule.keywords[k], subject_lower, body_lower) THEN rule.weight ELSE 0)

RECURSIVE SumRules(_, _, _)
SumRules(rules, subject_lower, body_lower) ==
    IF rules = <<>> THEN 0
    ELSE RuleScore(Head(rules), Len(Head(rules).keywords), subject_lower, body_lower)
         + SumRules(Tail(rules), subject_lower, body_lower)

\* score_content(subject, body)
score_content(subject, body) == SumRules(Bot_content_rules, Lower(subject), Lower(body))

\* EmailFilter.is_recruiter_email (email_filters.py)
Bot_is_recruiter_email(subject, body, from_header, inference) ==
    IF Bot_is_junk_email(from_header) THEN FALSE
    ELSE IF emailFilter.use_ml /\ emailFilter.ml_loaded
         THEN (IF inference = "raises" THEN FALSE ELSE inference = "recruiter")
         ELSE score_content(subject, body) >= content_score_threshold(config)

(***************************************************************************)
(* filter_emails                                                           *)
(***************************************************************************)
\* is_calendar_invite: a text/calendar part is found; a walk that raises gives False
is_calendar_invite(msg) == msg.calendar = "part"

\* one pass of the loop of filter_emails over a message whose sender check and
\* recruiter check answer junk and recruiter: whether the message is appended,
\* and which checks were made on it
FilterStep(msg, junk, recruiter) ==
    IF CalendarEnabled(config) /\ is_calendar_invite(msg)
    THEN [kept |-> TRUE, checks |-> {"calendar"}, raised |-> FALSE]
    ELSE LET made == IF CalendarEnabled(config) THEN {"calendar", "junk"} ELSE {"junk"}
         IN  IF junk THEN [kept |-> FALSE, checks |-> made, raised |-> FALSE]
             ELSE IF msg.extract_body_raises
                  THEN [kept |-> FALSE, checks |-> made \cup {"body"}, raised |-> TRUE]
                  ELSE [kept |-> recruiter, checks |-> made \cup {"body", "recruiter"}, raised |-> FALSE]

\* the first raising pass ends the loop: no pass is made on the messages after it
PassesMade_untilRaise(outcomes) ==
    [i \in 1..Len(outcomes) |->
        IF \E j \in 1..(i - 1) : outcomes[j].raised
        THEN [kept |-> FALSE, checks |-> {}, raised |-> FALSE]
        ELSE outcomes[i]]

\* try ... except Exception: log, continue: a raising pass ends the handling of
\* its message only, and the loop goes on with the next message
PassesMade(outcomes) == outcomes

\* EmailFilter.filter_emails (email_filters.py): the pass made over every message
Bot_filter_emails(emails) ==
    PassesMade([i \in 1..Len(emails) |->
        FilterStep(emails[i], Bot_is_junk_email(emails[i].from),
                   Bot_is_recruiter_email(emails[i].subject, emails[i].body, emails[i].from,
                                          emails[i].inference))])

\* EmailFilter.filter_emails (rules.py): the pass made over every message
Rules_filter_emails(filters, emails) ==
    PassesMade([i \in 1..Len(emails) |->
        FilterStep(emails[i], Rules_is_junk_email(filters, emails[i].from),
                   Rules_is_recruiter_email(filters, emails[i].subject, emails[i].body,
                                            emails[i].from, emails[i].inference))])

\* filtered: the appended messages, in input order
RECURSIVE Filtered(_, _)
Filtered(emails, outcomes) ==
    IF emails = <<>> THEN <<>>
    ELSE (IF Head(outcomes).kept THEN <<Head(emails)>> ELSE <<>>) \o Filtered(Tail(emails), Tail(outcomes))

(***************************************************************************)
(* The EmailFilter objects called on messages                              *)
(***************************************************************************)
Subjects == {<<>>, <<"g", " ", "n">>}
Bodies == {<<>>, <<"n">>, <<"0", " ", "1", " ", "2", " ", "X">>, <<"0", " ", "1", " ", "2", " ", "z">>}
\* a blocked sender, a sender no rule blocks, a header without an address
FromHeaders == {H_angle, H_angleUpper, H_nameOnly}

Message(from, subject, body, calendar, inference, extract_body_raises) ==
    [from |-> from, subject |-> subject, body |-> body, calendar |-> calendar,
     inference |-> inference, extract_body_raises |-> extract_body_raises]

\* a recruiter message of a sender no rule blocks, whose body extraction raises
M_bodyRaises == Message(H_angleUpper, <<"g", " ", "n">>, <<"n">>, "none", "recruiter", TRUE)

MessageBatchPool ==
    {Message(H_angle, <<"g", " ", "n">>, <<"n">>, "part", "other", FALSE),
     Message(H_angleUpper, <<>>, <<>>, "part", "other", FALSE),
     Message(H_angleUpper, <<"g", " ", "n">>, <<"n">>, "none", "recruiter", FALSE),
     Message(H_angleUpper, <<"g", " ", "n">>, <<"n">>, "unreadable", "raises", FALSE),
     Message(H_angle, <<"g", " ", "n">>, <<"n">>, "none", "recruiter", FALSE),
     M_bodyRaises}

MaxBatch == 2

\* batches of three with the raising message between two others
FailingBatches == {<<a, M_bodyRaises, b>> : a \in MessageBatchPool, b \in MessageBatchPool}

Batches == SeqsUpTo(MessageBatchPool, MaxBatch) \cup FailingBatches

\* the state after get_filter_repository() and EmailFilter(config)
InitRecruiter ==
    /\ ruleTable \in RecruiterTables
    /\ \E api_ok \in BOOLEAN :
          repo = IF api_ok THEN [loaded |-> TRUE, filters |-> LoadedFilters(ruleTable)]
                 ELSE [loaded |-> FALSE, filters |-> <<>>]
    /\ lastCall = Call("init", <<>>, "None")
    /\ ner = NoTables
    /\ candidates = <<>>
    /\ memo = NoMemo
    /\ config \in ConfigPool
    /\ \E files \in ModelFiles :
          emailFilter =
              [use_ml |-> load_ml_model(UseMlConfigured(config), files).use_ml,
               ml_loaded |-> load_ml_model(UseMlConfigured(config), files).ml_loaded,
               recruiter_keywords |-> get_keyword_lists(repo.filters, "recruiter_keywords"),
               anti_recruiter_keywords |-> get_keyword_lists(repo.filters, "anti_recruiter_keywords")]
    /\ tracker = NoTracker
    /\ workflow = NoWorkflow
    /\ apiClient = NoClient
    /\ jobs = NoJobs

BoolResult(b) == IF b THEN "True" ELSE "False"

\* EmailFilter.is_recruiter_email (email_filters.py)
BotIsRecruiterEmail(subject, body, from_header, inference) ==
    /\ lastCall.op \in IdleOps
    /\ lastCall' = [op |-> "bot_is_recruiter_email",
                    arg |-> [subject |-> subject, body |-> body, from |-> from_header],
                    inference |-> inference,
                    result |-> BoolResult(Bot_is_recruiter_email(subject, body, from_header, inference))]
    /\ UNCHANGED <<ruleTable, repo, resolverVars, filterVars, trackerVars, processVars>>

\* EmailFilter.score_content (email_filters.py)
ScoreContent(subject, body) ==
    /\ lastCall.op \in IdleOps
    /\ lastCall' = [op |-> "score_content", arg |-> [subject |-> subject, body |-> body],
                    result |-> score_content(subject, body)]
    /\ UNCHANGED <<ruleTable, repo, resolverVars, filterVars, trackerVars, processVars>>

\* EmailFilter.is_recruiter_email (rules.py): the repository is loaded on first use
RulesIsRecruiterEmail(subject, body, from_header, inference, api_ok) ==
    /\ lastCall.op \in IdleOps
    /\ repo' = IF extract_clean_email(from_header) = <<>> THEN repo ELSE RepoAfterGet(api_ok)
    /\ lastCall' = [op |-> "rules_is_recruiter_email",
                    arg |-> [subject |-> subject, body |-> body, from |-> from_header],
                    inference |-> inference,
                    result |-> BoolResult(Rules_is_recruiter_email(repo'.filters, subject, body,
                                                                   from_header, inference))]
    /\ UNCHANGED <<ruleTable, resolverVars, filterVars, trackerVars, processVars>>

\* EmailFilter.filter_emails (email_filters.py)
BotFilterEmails(emails) ==
    /\ lastCall.op \in IdleOps
    /\ \E outcomes \in {Bot_filter_emails(emails)} :
          lastCall' = [op |-> "bot_filter_emails", arg |-> emails, outcomes |-> outcomes,
                       result |-> Filtered(emails, outcomes)]
    /\ UNCHANGED <<ruleTable, repo, resolverVars, filterVars, trackerVars, processVars>>

\* EmailFilter.filter_emails (rules.py): the repository is loaded by the first
\* message whose sender address is looked up
RulesFilterEmails(emails, api_ok) ==
    /\ lastCall.op \in IdleOps
    /\ repo' = IF \E i \in 1..Len(emails) :
                     /\ ~(CalendarEnabled(config) /\ is_calendar_invite(emails[i]))
                     /\ extract_clean_email(emails[i].from) # <<>>
               THEN RepoAfterGet(api_ok) ELSE repo
    /\ \E outcomes \in {Rules_filter_emails(repo'.filters, emails)} :
          lastCall' = [op |-> "rules_filter_emails", arg |-> emails, outcomes |-> outcomes,
                       result |-> Filtered(emails, outcomes)]
    /\ UNCHANGED <<ruleTable, resolverVars, filterVars, trackerVars, processVars>>

NextRecruiter ==
    \/ Return
    \/ /\ lastCall.op \in IdleOps
       /\ \E subject \in Subjects, body \in Bodies, h \in FromHeaders, inference \in Inferences :
             BotIsRecruiterEmail(subject, body, h, inference)
    \/ /\ lastCall.op \in IdleOps
       /\ \E subject \in Subjects, body \in Bodies, h \in FromHeaders, inference \in Inferences,
             api_ok \in (IF repo.loaded THEN {TRUE} ELSE BOOLEAN) :
             RulesIsRecruiterEmail(subject, body, h, inference, api_ok)
    \/ /\ lastCall.op \in IdleOps
       /\ \E subject \in Subjects, body \in Bodies : ScoreContent(subject, body)
    \/ /\ lastCall.op \in IdleOps
       /\ \E emails \in Batches : BotFilterEmails(emails)
    \/ /\ lastCall.op \in IdleOps
       /\ \E emails \in Batches,
             api_ok \in (IF repo.loaded THEN {TRUE} ELSE BOOLEAN) :
             RulesFilterEmails(emails, api_ok)

SpecRecruiter == InitRecruiter /\ [][NextRecruiter]_vars

(***************************************************************************)
(* C6  the classifier supersedes the scoring, which is the fallback        *)
(***************************************************************************)
C6_Call == lastCall.op \in {"bot_is_recruiter_email", "rules_is_recruiter_email"}

\* the sender of the call is not junk for the EmailFilter that was called
C6_SenderNotJunk ==
    IF lastCall.op = "bot_is_recruiter_email"
    THEN ~Bot_is_junk_email(lastCall.arg.from)
    ELSE ~Rules_is_junk_email(repo.filters, lastCall.arg.from)

\* what the scoring heuristic of the called EmailFilter says of the message
C6_Scoring ==
    IF lastCall.op = "bot_is_recruiter_email"
    THEN BoolResult(score_content(lastCall.arg.subject, lastCall.arg.body) >= content_score_threshold(config))
    ELSE BoolResult(classify_with_rules(lastCall.arg.subject, lastCall.arg.body))

\* the classifier was enabled in the configuration, and its files loaded
C6_Loaded == config.use_ml_classifier = "true" /\ emailFilter.ml_loaded

\* C6 (rules.py): for a sender that is not junk, the EmailFilter of rules.py
\* returns the prediction of the enabled and loaded classifier, and the result
\* of its keyword heuristic when the model did not load or inference raises.
C6_RulesVariantFallsBack ==
    (lastCall.op = "rules_is_recruiter_email" /\ C6_SenderNotJunk) =>
        /\ (C6_Loaded /\ lastCall.inference # "raises") =>
               lastCall.result = BoolResult(lastCall.inference = "recruiter")
        /\ (config.use_ml_classifier = "true" /\ (~emailFilter.ml_loaded \/ lastCall.inference = "raises")) =>
               lastCall.result = C6_Scoring

\* C6 (email_filters.py): for a sender that is not junk, the DB-driven
\* EmailFilter returns the prediction of the enabled and loaded classifier, and
\* the result of its content score when the model did not load.
C6_BotVariantSupersedes ==
    (lastCall.op = "bot_is_recruiter_email" /\ C6_SenderNotJunk) =>
        /\ (C6_Loaded /\ lastCall.inference # "raises") =>
               lastCall.result = BoolResult(lastCall.inference = "recruiter")
        /\ (config.use_ml_classifier = "true" /\ ~emailFilter.ml_loaded) =>
               lastCall.result = C6_Scoring

\* C6: for a sender that is not junk, is_recruiter_email returns the prediction
\* of the enabled and loaded classifier whatever the scoring says; when the
\* model did not load, or inference raises, it returns the result of the
\* scoring heuristic.
C6_ClassifierWithFallback ==
    (C6_Call /\ C6_SenderNotJunk) =>
        /\ (C6_Loaded /\ lastCall.inference # "raises") =>
               lastCall.result = BoolResult(lastCall.inference = "recruiter")
        /\ (config.use_ml_classifier = "true" /\ (~emailFilter.ml_loaded \/ lastCall.inference = "raises")) =>
               lastCall.result = C6_Scoring

(***************************************************************************)
(* C7  four anti-recruiter keywords veto the message                       *)
(***************************************************************************)
\* the anti-recruiter keywords of the filter that occur in the subject or in the
\* body, whatever the case of their letters
C7_Occurring ==
    {i \in 1..Len(emailFilter.anti_recruiter_keywords) :
        \/ Contains(Lower(lastCall.arg.subject), Lower(emailFilter.anti_recruiter_keywords[i]))
        \/ Contains(Lower(lastCall.arg.body), Lower(emailFilter.anti_recruiter_keywords[i]))}

\* C7 (as counted): when the classifier gives no prediction and at least 4 of the
\* filter's keywords, as they are stored, are found in the lower-cased subject,
\* space, body, is_recruiter_email of rules.py returns False.
C7_VetoAsCounted ==
    (/\ lastCall.op = "rules_is_recruiter_email"
     /\ ~(emailFilter.use_ml /\ lastCall.inference # "raises")
     /\ CountIn(emailFilter.anti_recruiter_keywords,
                Lower(lastCall.arg.subject) \o <<" ">> \o Lower(lastCall.arg.body)) >= 4)
        => lastCall.result = "False"

\* C7 (without classifier): when the classifier gives no prediction and at least
\* 4 anti-recruiter keywords occur in the subject and body, is_recruiter_email
\* of rules.py returns False.
C7_VetoWithoutClassifier ==
    (/\ lastCall.op = "rules_is_recruiter_email"
     /\ ~(emailFilter.use_ml /\ lastCall.inference # "raises")
     /\ Cardinality(C7_Occurring) >= 4)
        => lastCall.result = "False"

\* C7: whenever at least 4 anti-recruiter keywords occur in the subject and body
\* of a message, is_recruiter_email of rules.py returns False.
C7_AntiKeywordVeto ==
    (lastCall.op = "rules_is_recruiter_email" /\ Cardinality(C7_Occurring) >= 4)
        => lastCall.result = "False"

(***************************************************************************)
(* C10  calendar invites bypass the checks                                 *)
(***************************************************************************)
C10_Call == lastCall.op \in {"bot_filter_emails", "rules_filter_emails"}

\* what the junk check and the recruiter check of the called EmailFilter say of
\* a message of the batch
C10_Junk(msg) ==
    IF lastCall.op = "bot_filter_emails" THEN Bot_is_junk_email(msg.from)
    ELSE Rules_is_junk_email(repo.filters, msg.from)

C10_Recruiter(msg) ==
    IF lastCall.op = "bot_filter_emails"
    THEN Bot_is_recruiter_email(msg.subject, msg.body, msg.from, msg.inference)
    ELSE Rules_is_recruiter_email(repo.filters, msg.subject, msg.body, msg.from, msg.inference)

\* the number of kept messages among the first k of the batch
RECURSIVE C10_KeptBefore(_)
C10_KeptBefore(k) ==
    IF k = 0 THEN 0 ELSE C10_KeptBefore(k - 1) + (IF lastCall.outcomes[k].kept THEN 1 ELSE 0)

\* C10: with calendar processing enabled, which it is unless the configuration
\* says otherwise, filter_emails keeps every message with a text/calendar part
\* and makes neither the junk nor the recruiter check on it; with calendar
\* processing disabled the junk check is made on such a message, and it is kept
\* exactly when it is not junk, its body is extracted and it is a recruiter
\* message.
C10_CalendarInvitesKept ==
    C10_Call =>
        \A i \in 1..Len(lastCall.arg) :
            lastCall.arg[i].calendar = "part" =>
                IF config.calendar_process \in {"unset", "true"}
                THEN /\ lastCall.outcomes[i].kept
                     /\ lastCall.result[C10_KeptBefore(i)] = lastCall.arg[i]
                     /\ lastCall.outcomes[i].checks \cap {"junk", "body", "recruiter"} = {}
                ELSE /\ "junk" \in lastCall.outcomes[i].checks
                     /\ "calendar" \notin lastCall.outcomes[i].checks
                     /\ lastCall.outcomes[i].kept =
                            (/\ ~C10_Junk(lastCall.arg[i])
                             /\ ~lastCall.arg[i].extract_body_raises
                             /\ C10_Recruiter(lastCall.arg[i]))
                     /\ lastCall.outcomes[i].kept => "recruiter" \in lastCall.outcomes[i].checks

\* calendar processing is left at its default; an invite from a blocked sender
\* is kept and a recruiter message from the same sender is dropped
C10_Witness ==
    /\ C10_Call
    /\ config.calendar_process = "unset"
    /\ Len(lastCall.arg) = 2
    /\ lastCall.arg[1].calendar = "part" /\ C10_Junk(lastCall.arg[1])
    /\ lastCall.arg[2].calendar = "none" /\ C10_Junk(lastCall.arg[2])
    /\ lastCall.result = <<lastCall.arg[1]>>

(***************************************************************************)
(* C11  a raising message is dropped and the batch goes on                 *)
(***************************************************************************)
\* the batch of the call without its i-th message
C11_Without(i) == SubSeq(lastCall.arg, 1, i - 1) \o SubSeq(lastCall.arg, i + 1, Len(lastCall.arg))

\* what the called filter_emails returns for the batch without its i-th message
C11_ResultWithout(i) ==
    IF lastCall.op = "bot_filter_emails"
    THEN Filtered(C11_Without(i), Bot_filter_emails(C11_Without(i)))
    ELSE Filtered(C11_Without(i), Rules_filter_emails(repo.filters, C11_Without(i)))

\* C11: when the handling of a message raises inside filter_emails, the call
\* still makes a pass on every message of the batch and returns; the raising
\* message is not in the result, and the result is the one the batch without
\* that message gives: the same messages kept, in input order.
C11_RaisingMessageDropped ==
    C10_Call =>
        /\ Len(lastCall.outcomes) = Len(lastCall.arg)
        /\ \A i \in 1..Len(lastCall.arg) :
               lastCall.outcomes[i].raised =>
                   /\ ~lastCall.outcomes[i].kept
                   /\ lastCall.result = C11_ResultWithout(i)

\* the second of three messages raises, and the two different messages around
\* it are both kept
C11_Witness ==
    /\ C10_Call
    /\ Len(lastCall.arg) = 3
    /\ lastCall.outcomes[2].raised
    /\ lastCall.arg[1] # lastCall.arg[3]
    /\ lastCall.result = <<lastCall.arg[1], lastCall.arg[3]>>

(***************************************************************************)
(* Contact persistence (vendor_contacts.py, vendor_util.py)                *)
(***************************************************************************)
MaxLinkedinLength == 80
Avatar_MaxLinkedinLength == 50
MinNameWords == 2
MaxNameWords == 6
Avatar_MaxNameWords == 4

blocked_local_parts ==
    { <<"n", "o", "r", "e", "p", "l", "y">>,
      <<"n", "o", "-", "r", "e", "p", "l", "y">>,
      <<"i", "n", "f", "o", "@">>,
      <<"s", "u", "p", "p", "o", "r", "t", "@">>,
      <<"a", "d", "m", "i", "n", "@">> }

HasDigit(s) == \E i \in 1..Len(s) : s[i] \in Digits

\* the rule of _is_valid_contact that rejects the contact, "valid" when none does;
\* the fields are the stripped ones in vendor_contacts.py and the raw ones in
\* vendor_util.py
FirstFailedRule(email, linkedin, name, max_linkedin, max_words) ==
    IF email = <<>> /\ linkedin = <<>> THEN "identity"
    ELSE IF /\ email # <<>>
            /\ \/ ~HasChar(email, "@")
               \/ ~HasChar(email, ".")
               \/ \E token \in blocked_local_parts : Contains(Lower(email), token)
    THEN "email"
    ELSE IF linkedin # <<>> /\ (HasChar(linkedin, " ") \/ Len(linkedin) > max_linkedin)
    THEN "linkedin"
    ELSE IF /\ name # <<>>
            /\ \/ Len(Words(name)) < MinNameWords
               \/ Len(Words(name)) > max_words
               \/ HasDigit(name)
    THEN "name"
    ELSE "valid"

\* VendorUtil._is_valid_contact (vendor_contacts.py)
Contacts_validation(contact) ==
    FirstFailedRule(Strip(contact.email), Strip(contact.linkedin_id), Strip(contact.name),
                    MaxLinkedinLength, MaxNameWords)

Contacts_is_valid_contact(contact) == Contacts_validation(contact) = "valid"

\* VendorUtil._is_valid_contact (vendor_util.py)
Avatar_validation(contact) ==
    FirstFailedRule(contact.email, contact.linkedin_id, contact.name,
                    Avatar_MaxLinkedinLength, Avatar_MaxNameWords)

Avatar_is_valid_contact(contact) == Avatar_validation(contact) = "valid"

\* VendorUtil._is_vendor_recruiter_contact
is_vendor_recruiter_contact(filters, contact) ==
    LET source_email == Lower(Strip(contact.source))
        contact_email == Lower(Strip(contact.email))
    IN  /\ ~(source_email # <<>> /\ contact_email # <<>> /\ source_email = contact_email)
        /\ ~(contact_email # <<>> /\ check_email(filters, contact_email) = "block")

\* a key that ignores the case of the letters
dedupe_key_exact(contact) ==
    IF Strip(contact.email) # <<>> THEN Strip(contact.email)
    ELSE <<"l", "i", ":">> \o Strip(contact.linkedin_id)

\* email_key or f"li:{linkedin_key}"
dedupe_key(contact) ==
    LET email_key == Lower(Strip(contact.email))
        linkedin_key == Lower(Strip(contact.linkedin_id))
    IN  IF email_key # <<>> THEN email_key ELSE <<"l", "i", ":">> \o linkedin_key

\* Step 1 of save_contacts: what the loop decides for each contact, the contacts
\* it appends and the keys it has seen
RECURSIVE ValidateAndDedup(_, _)
ValidateAndDedup(filters, contacts) ==
    IF contacts = <<>>
    THEN [steps |-> <<>>, filtered_contacts |-> <<>>, seen_keys |-> {}]
    ELSE LET before == ValidateAndDedup(filters, SubSeq(contacts, 1, Len(contacts) - 1))
             contact == contacts[Len(contacts)]
             step == IF ~Contacts_is_valid_contact(contact) THEN Contacts_validation(contact)
                     ELSE IF ~is_vendor_recruiter_contact(filters, contact) THEN "not_vendor"
                     ELSE IF dedupe_key(contact) # <<>> /\ dedupe_key(contact) \in before.seen_keys
                     THEN "duplicate"
                     ELSE "kept"
         IN  [steps |-> Append(before.steps, step),
              filtered_contacts |-> IF step = "kept" THEN Append(before.filtered_contacts, contact)
                                    ELSE before.filtered_contacts,
              seen_keys |-> IF step = "kept" /\ dedupe_key(contact) # <<>>
                            THEN before.seen_keys \cup {dedupe_key(contact)}
                            ELSE before.seen_keys]

CountSteps(steps, S) == Cardinality({i \in 1..Len(steps) : steps[i] \in S})

\* _build_vendor_contacts_payload: a contact without a name is left out
build_vendor_contacts_payload(contacts) ==
    SelectSeq(contacts, LAMBDA contact : Strip(contact.name) # <<>>)

\* _build_raw_job_listings_payload: of job_position, raw_body, location and company
\* the contacts here carry company only
build_raw_job_listings_payload(contacts) ==
    SelectSeq(contacts, LAMBDA contact : contact.company # <<>>)

NoPosts == [extracts |-> <<>>, vendor_contacts |-> <<>>, positions |-> <<>>]
NoCounts ==
    [contacts_inserted |-> 0, contacts_skipped |-> 0, positions_inserted |-> 0,
     positions_skipped |-> 0, extracts_inserted |-> 0, extracts_skipped |-> 0]

\* the answers of the backend during one save_contacts call: which of the three
\* bulk posts raises, if any; a post that succeeds reports every row inserted
ApiAnswers == {"ok", "extracts_raise", "vendor_raise", "positions_raise"}

\* VendorUtil.save_contacts (vendor_contacts.py) after Step 1: the rows handed to
\* api_client.post and the counts returned
SaveFiltered(step1, existing_global_emails, api) ==
    LET filtered_contacts == step1.filtered_contacts
        skipped_local == Len(step1.steps) - Len(filtered_contacts)
        truly_new_contacts ==
            SelectSeq(filtered_contacts,
                      LAMBDA c : Lower(Strip(c.email)) \notin existing_global_emails)
        skipped_global == skipped_local + Len(filtered_contacts) - Len(truly_new_contacts)
        bulk_contacts == build_vendor_contacts_payload(truly_new_contacts)
        raw_job_listings == build_raw_job_listings_payload(truly_new_contacts)
        audited == [NoCounts EXCEPT
                      !.contacts_skipped = skipped_global,
                      !.extracts_inserted = IF api = "extracts_raise" THEN 0 ELSE Len(filtered_contacts),
                      !.extracts_skipped = IF api = "extracts_raise" THEN Len(filtered_contacts) ELSE 0]
    IN  IF filtered_contacts = <<>>
        THEN [posts |-> NoPosts, result |-> [NoCounts EXCEPT !.contacts_skipped = skipped_local]]
        ELSE IF truly_new_contacts = <<>>
        THEN [posts |-> [NoPosts EXCEPT !.extracts = filtered_contacts], result |-> audited]
        ELSE IF bulk_contacts # <<>> /\ api = "vendor_raise"
        THEN [posts |-> [extracts |-> filtered_contacts, vendor_contacts |-> bulk_contacts,
                         positions |-> <<>>],
              result |-> audited]
        ELSE [posts |-> [extracts |-> filtered_contacts, vendor_contacts |-> bulk_contacts,
                         positions |-> raw_job_listings],
              result |-> [audited EXCEPT
                            !.contacts_inserted = Len(bulk_contacts),
                            !.positions_inserted = IF api = "positions_raise" THEN 0
                                                   ELSE Len(raw_job_listings)]]

\* VendorUtil.save_contacts (vendor_util.py): one post per valid contact with a
\* name; failed holds the positions whose post raises
Avatar_posts(contacts) ==
    SelectSeq(SelectSeq(contacts, Avatar_is_valid_contact),
              LAMBDA contact : Strip(contact.name) # <<>>)

Contact(name, email, linkedin_id, source, company) ==
    [name |-> name, email |-> email, linkedin_id |-> linkedin_id, source |-> source,
     company |-> company]

N_two == <<"a", " ", "b">>
N_one == <<"a">>
N_digit == <<"a", " ", "b", "1">>
N_five == <<"a", " ", "b", " ", "a", " ", "b", " ", "a">>
N_six == <<"a", " ", "b", " ", "a", " ", "b", " ", "a", " ", "b">>
N_seven == <<"a", " ", "b", " ", "a", " ", "b", " ", "a", " ", "b", " ", "a">>
E_zx == <<"z", "@", "x", ".", "c">>
E_agPadded == <<" ", "A", "@", "g", ".", "c">>
E_info == <<"i", "n", "f", "o", "@", "g", ".", "c">>
L_ab == <<"a", "b">>
L_AB == <<"A", "B">>
L_spaced == <<"a", " ", "b">>

K_a == Contact(N_two, E_ag, <<>>, E_nl, <<"x">>)
K_aPadded == Contact(N_six, E_agPadded, L_ab, E_nl, <<>>)
K_aOwn == Contact(N_two, E_ag, <<>>, E_ag, <<"x">>)
K_n == Contact(<<>>, E_nl, L_ab, E_ag, <<"x">>)
K_li == Contact(<<>>, <<>>, L_ab, E_nl, <<"x">>)
K_liUpper == Contact(N_two, <<>>, L_AB, E_nl, <<>>)
K_liSpaced == Contact(N_two, <<>>, L_spaced, E_nl, <<>>)
K_anonymous == Contact(N_two, <<>>, <<>>, E_nl, <<"x">>)
K_noAt == Contact(N_two, E_noAt, L_ab, E_nl, <<>>)
K_info == Contact(N_two, E_info, <<>>, E_nl, <<>>)
K_one == Contact(N_one, E_zx, <<>>, E_nl, <<>>)
K_digit == Contact(N_digit, E_zx, <<>>, E_nl, <<>>)
K_five == Contact(N_five, E_zx, <<>>, E_nl, <<>>)
K_seven == Contact(N_seven, <<>>, L_AB, E_nl, <<"x">>)

ContactPool ==
    {K_a, K_aPadded, K_aOwn, K_n, K_li, K_liUpper, K_liSpaced, K_anonymous, K_noAt, K_info,
     K_one, K_digit, K_five, K_seven}

\* runs of three contacts with one address
SameAddressRuns == {<<a, b, c>> : a, b, c \in {K_a, K_aPadded, K_aOwn}}

\* the contacts that share or lack an identity: two addresses written three
\* ways, one LinkedIn id written three ways, and a contact with neither
KeyedContacts == {K_a, K_aPadded, K_aOwn, K_n, K_li, K_liUpper, K_liSpaced, K_anonymous}

\* every contact alone, and the lists of contacts whose keys can collide
ContactLists ==
    {<<k>> : k \in ContactPool} \cup SeqsUpTo(KeyedContacts, MaxBatch) \cup SameAddressRuns

\* the answers of POST /api/automation-extracts/check-emails
GlobalEmailAnswers == {{}, {E_ag}}

ContactTables == {<<R_blockLocal, R_blockDomain>>, <<R_allowDomain>>}

\* the state after get_filter_repository() and VendorUtil(api_client)
InitContacts ==
    /\ ruleTable \in ContactTables
    /\ \E api_ok \in BOOLEAN :
          repo = IF api_ok THEN [loaded |-> TRUE, filters |-> LoadedFilters(ruleTable)]
                 ELSE [loaded |-> FALSE, filters |-> <<>>]
    /\ lastCall = Call("init", <<>>, "None")
    /\ ner = NoTables
    /\ candidates = <<>>
    /\ memo = NoMemo
    /\ config = DefaultConfig
    /\ emailFilter = NoEmailFilter
    /\ tracker = NoTracker
    /\ workflow = NoWorkflow
    /\ apiClient = NoClient
    /\ jobs = NoJobs

\* VendorUtil.save_contacts (vendor_contacts.py): the repository is consulted, and
\* loaded when nothing is cached, by the first valid contact whose own address is
\* not the source address
SaveContacts(contacts, api_ok, existing_global_emails, api) ==
    /\ lastCall.op \in IdleOps
    /\ repo' = IF \E i \in 1..Len(contacts) :
                     /\ Contacts_is_valid_contact(contacts[i])
                     /\ Strip(contacts[i].email) # <<>>
                     /\ Lower(Strip(contacts[i].email)) # Lower(Strip(contacts[i].source))
               THEN RepoAfterGet(api_ok) ELSE repo
    /\ \E step1 \in {ValidateAndDedup(repo'.filters, contacts)} :
       \E saved \in {SaveFiltered(step1, existing_global_emails, api)} :
          lastCall' = [op |-> "save_contacts", arg |-> contacts, steps |-> step1.steps,
                       posts |-> saved.posts, result |-> saved.result]
    /\ UNCHANGED <<ruleTable, resolverVars, filterVars, trackerVars, processVars>>

\* VendorUtil.save_contacts (vendor_util.py)
AvatarSaveContacts(contacts, failed) ==
    /\ lastCall.op \in IdleOps
    /\ failed \subseteq 1..Len(Avatar_posts(contacts))
    /\ lastCall' = [op |-> "avatar_save_contacts", arg |-> contacts,
                    steps |-> [i \in 1..Len(contacts) |-> Avatar_validation(contacts[i])],
                    posts |-> [NoPosts EXCEPT !.vendor_contacts = Avatar_posts(contacts)],
                    result |-> Len(Avatar_posts(contacts)) - Cardinality(failed)]
    /\ UNCHANGED <<ruleTable, repo, resolverVars, filterVars, trackerVars, processVars>>

NextContacts ==
    \/ Return
    \/ /\ lastCall.op \in IdleOps
       /\ \E contacts \in ContactLists, api_ok \in (IF repo.loaded THEN {TRUE} ELSE BOOLEAN),
             existing_global_emails \in GlobalEmailAnswers, api \in ApiAnswers :
             SaveContacts(contacts, api_ok, existing_global_emails, api)
    \/ /\ lastCall.op \in IdleOps
       /\ \E contacts \in ContactLists, failed \in SUBSET (1..(MaxBatch + 1)) :
             AvatarSaveContacts(contacts, failed)

SpecContacts == InitContacts /\ [][NextContacts]_vars

(***************************************************************************)
(* C12: local deduplication of save_contacts                               *)
(***************************************************************************)
C12_Call == lastCall.op = "save_contacts"

\* the deduplication key as stated: the trimmed lower-cased email or, without an
\* email, the lower-cased LinkedIn id
C12_Key(contact) ==
    IF Strip(contact.email) # <<>> THEN <<"email", Lower(Strip(contact.email))>>
    ELSE <<"linkedin_id", Lower(Strip(contact.linkedin_id))>>

C12_DistinctKeys(posted) ==
    \A i, j \in 1..Len(posted) : i # j => C12_Key(posted[i]) # C12_Key(posted[j])

\* the contacts of the call that pass the validation of Step 1
C12_Valid(i) == lastCall.steps[i] \in {"kept", "duplicate"}

C12_FirstOfKey(i) ==
    /\ C12_Valid(i)
    /\ \A j \in 1..(i - 1) : C12_Valid(j) => C12_Key(lastCall.arg[j]) # C12_Key(lastCall.arg[i])

C12_FirstOccurrences ==
    LET RECURSIVE Firsts(_)
        Firsts(n) == IF n = 0 THEN <<>>
                     ELSE IF C12_FirstOfKey(n) THEN Append(Firsts(n - 1), lastCall.arg[n])
                     ELSE Firsts(n - 1)
    IN  Firsts(Len(lastCall.arg))

\* C12: within one save_contacts call no two contacts handed to a bulk post have
\* the same deduplication key; of the valid contacts with one key the first in
\* input order is the one kept and every later one is counted as skipped
C12_FirstSeenWins ==
    C12_Call =>
        /\ C12_DistinctKeys(lastCall.posts.extracts)
        /\ C12_DistinctKeys(lastCall.posts.vendor_contacts)
        /\ C12_DistinctKeys(lastCall.posts.positions)
        /\ \A i \in 1..Len(lastCall.arg) :
              C12_Valid(i) => (lastCall.steps[i] = "kept" <=> C12_FirstOfKey(i))
        /\ lastCall.posts.extracts = C12_FirstOccurrences
        /\ lastCall.result.contacts_skipped >=
              CountSteps(lastCall.steps, {"duplicate"})
        /\ lastCall.result.contacts_skipped >= Len(lastCall.arg) - Len(C12_FirstOccurrences)

\* three valid contacts with one address, written with different case and padding:
\* the first is posted and the two later ones are skipped
C12_Witness ==
    /\ C12_Call
    /\ Len(lastCall.arg) = 3
    /\ lastCall.arg[1] # lastCall.arg[2]
    /\ lastCall.steps = <<"kept", "duplicate", "duplicate">>
    /\ lastCall.posts.extracts = <<lastCall.arg[1]>>
    /\ lastCall.result.contacts_skipped >= 2

(***************************************************************************)
(* C13: the validity gate of save_contacts                                 *)
(***************************************************************************)
C13_Call == lastCall.op \in {"save_contacts", "avatar_save_contacts"}

C13_Posted ==
    {lastCall.posts.extracts[i] : i \in 1..Len(lastCall.posts.extracts)}
    \cup {lastCall.posts.vendor_contacts[i] : i \in 1..Len(lastCall.posts.vendor_contacts)}
    \cup {lastCall.posts.positions[i] : i \in 1..Len(lastCall.posts.positions)}

C13_HasIdentity(contact) == Strip(contact.email) # <<>> \/ Strip(contact.linkedin_id) # <<>>

C13_WordCount(contact) == Len(Words(contact.name))

\* a name of 2 to 6 words without a digit
C13_GoodName(contact) ==
    /\ C13_WordCount(contact) >= 2
    /\ C13_WordCount(contact) <= 6
    /\ \A i \in 1..Len(contact.name) : contact.name[i] \notin {"0", "1", "2"}

\* C13 (first half): no contact is handed to a post unless it has an email or a
\* LinkedIn identifier, and none whose non-empty name contains a digit or has
\* fewer than 2 or more than 6 words
C13_PostedAreValid ==
    C13_Call =>
        \A contact \in C13_Posted :
            /\ C13_HasIdentity(contact)
            /\ contact.name # <<>> => C13_GoodName(contact)

\* C13 (second half, vendor_contacts.py): a contact with an email or LinkedIn id and
\* a name of 2 to 6 digit-free words is not rejected by the name rule
C13_NameRuleAccepts_contacts ==
    lastCall.op = "save_contacts" =>
        \A i \in 1..Len(lastCall.arg) :
            C13_HasIdentity(lastCall.arg[i]) /\ C13_GoodName(lastCall.arg[i])
                => lastCall.steps[i] # "name"

\* C13 (second half, both implementations): a contact with an email or LinkedIn id
\* and a name of 2 to 6 digit-free words is not rejected by the name rule
C13_NameRuleAccepts ==
    C13_Call =>
        \A i \in 1..Len(lastCall.arg) :
            C13_HasIdentity(lastCall.arg[i]) /\ C13_GoodName(lastCall.arg[i])
                => lastCall.steps[i] # "name"

\* a contact with an address and a name of five words is rejected by the name rule
\* of vendor_util.py
C13_FiveWordsRejected ==
    /\ lastCall.op = "avatar_save_contacts"
    /\ lastCall.arg = <<K_five>>
    /\ lastCall.steps = <<"name">>
    /\ lastCall.posts.vendor_contacts = <<>>

(***************************************************************************)
(* C14: no company from an ATS domain or a blocked address                 *)
(***************************************************************************)
C14_Call == lastCall.op = "resolve" /\ HasChar(lastCall.arg.email, "@")

\* the domain of the sender address contains an entry of the ATS-domain list
C14_AtsListed ==
    \E i \in 1..Len(ner.ats_domains) :
        Contains(Lower(FullDomain(lastCall.arg.email)), ner.ats_domains[i])

\* the rule repository classifies the sender address block
C14_Blocked == check_email(lastCall.filters, lastCall.arg.email) = "block"

C14_DomainCandidates == SelectSeq(candidates, LAMBDA c : c.source = "domain")

\* C14: for a sender address whose domain contains an ATS-list entry or which the
\* rule repository classifies block, extract_company_from_domain returns no company
\* and the resolver holds no domain candidate, whatever the root label is
C14_NoCompanyFromAtsOrBlocked ==
    C14_Call /\ (C14_AtsListed \/ C14_Blocked) =>
        /\ extract_company_from_domain(lastCall.filters, lastCall.arg.email) = <<>>
        /\ C14_DomainCandidates = <<>>

\* a sender at a subdomain of a listed ATS domain, not blocked, with a root label:
\* the resolver holds candidates of other sources only
C14_Witness ==
    /\ C14_Call
    /\ C14_AtsListed
    /\ ~C14_Blocked
    /\ RootLabel(FullDomain(lastCall.arg.email)) # <<>>
    /\ FullDomain(lastCall.arg.email) \notin {ner.ats_domains[i] : i \in 1..Len(ner.ats_domains)}
    /\ candidates # <<>>
    /\ C14_DomainCandidates = <<>>

\* a blocked sender whose domain is not on the ATS list
C14_WitnessBlocked ==
    /\ C14_Call
    /\ C14_Blocked
    /\ ~C14_AtsListed
    /\ RootLabel(FullDomain(lastCall.arg.email)) # <<>>
    /\ C14_DomainCandidates = <<>>

(***************************************************************************)
(* The rule repository as a process-wide singleton                         *)
(***************************************************************************)
RepositoryTables ==
    {<<>>, <<R_blockLocal, R_blockDomain>>, <<R_recruiterKw, R_allowDomain>>,
     <<R_antiKw, R_inactive, R_allowEmail>>}

RepositoryCategories ==
    {"blocked_localpart", "blocked_personal_domain", "allowed_staffing_domain",
     "recruiter_keywords", "anti_recruiter_keywords", "allowed_email"}

\* the state after the first get_filter_repository(): the instance is created and
\* load_filters() has been attempted once
InitRepository ==
    /\ ruleTable \in RepositoryTables
    /\ \E api_ok \in BOOLEAN :
          repo = IF api_ok /\ ruleTable # <<>>
                 THEN [loaded |-> TRUE, filters |-> LoadedFilters(ruleTable)]
                 ELSE [loaded |-> FALSE, filters |-> <<>>]
    /\ lastCall = Call("init", <<>>, "None")
    /\ ner = NoTables
    /\ candidates = <<>>
    /\ memo = NoMemo
    /\ config = DefaultConfig
    /\ emailFilter = NoEmailFilter
    /\ tracker = NoTracker
    /\ workflow = NoWorkflow
    /\ apiClient = NoClient
    /\ jobs = NoJobs

\* FilterRepository.get_filters(): load_filters() is called when _filters is None
GetFilters(api_ok) ==
    /\ lastCall.op \in IdleOps
    /\ repo' = RepoAfterGet(api_ok)
    /\ lastCall' = [op |-> "get_filters", arg |-> <<>>, result |-> repo'.filters,
                    fetched |-> ~repo.loaded]
    /\ UNCHANGED <<ruleTable, NotSender>>

\* FilterRepository.get_filters_by_category(category)
GetFiltersByCategory(category, api_ok) ==
    /\ lastCall.op \in IdleOps
    /\ repo' = RepoAfterGet(api_ok)
    /\ lastCall' = [op |-> "get_filters_by_category", arg |-> category,
                    result |-> SelectSeq(repo'.filters, LAMBDA f : f.category = category),
                    fetched |-> ~repo.loaded]
    /\ UNCHANGED <<ruleTable, NotSender>>

\* FilterRepository.get_keyword_lists()
GetKeywordLists(api_ok) ==
    /\ lastCall.op \in IdleOps
    /\ repo' = RepoAfterGet(api_ok)
    /\ lastCall' = [op |-> "get_keyword_lists", arg |-> <<>>,
                    result |-> [c \in RepositoryCategories |-> get_keyword_lists(repo'.filters, c)],
                    fetched |-> ~repo.loaded]
    /\ UNCHANGED <<ruleTable, NotSender>>

NextRepository ==
    \/ Return
    \/ /\ lastCall.op \in IdleOps
       /\ \E api_ok \in BOOLEAN : load_filters(api_ok)
    \/ /\ lastCall.op \in IdleOps
       /\ \E api_ok \in (IF repo.loaded THEN {TRUE} ELSE BOOLEAN) : GetFilters(api_ok)
    \/ /\ lastCall.op \in IdleOps
       /\ \E category \in RepositoryCategories, api_ok \in (IF repo.loaded THEN {TRUE} ELSE BOOLEAN) :
             GetFiltersByCategory(category, api_ok)
    \/ /\ lastCall.op \in IdleOps
       /\ \E api_ok \in (IF repo.loaded THEN {TRUE} ELSE BOOLEAN) : GetKeywordLists(api_ok)
    \/ /\ lastCall.op \in IdleOps
       /\ \E email \in EmailArgs, api_ok \in (IF repo.loaded THEN {TRUE} ELSE BOOLEAN) :
             CheckEmail(email, api_ok)

SpecRepository == InitRepository /\ [][NextRepository]_vars

(***************************************************************************)
(* C15: the rules are fetched once per process                             *)
(***************************************************************************)
C15_Readers == {"get_filters", "check_email", "get_filters_by_category", "get_keyword_lists"}

\* C15: after the load attempt made by get_filter_repository, no call of
\* get_filters, check_email, get_filters_by_category or get_keyword_lists
\* fetches the rules from the API again
C15_NoLaterFetch == lastCall.op \in C15_Readers => ~lastCall.fetched

\* C15: the cached rule list changes only in an explicit call of load_filters
C15_CacheChangesOnlyOnLoad == [][lastCall'.op # "load_filters" => repo' = repo]_vars

\* C15, for a repository whose rules are cached: no reader fetches, and the cached
\* list changes only in an explicit call of load_filters
C15_OnceLoaded ==
    [][repo.loaded /\ lastCall'.op # "load_filters" =>
            /\ repo' = repo
            /\ lastCall'.op \in C15_Readers => ~lastCall'.fetched]_vars

\* the first load attempt failed and a later check_email fetched and cached the rules
C15_LazyReload ==
    /\ lastCall.op = "check_email"
    /\ lastCall.fetched
    /\ repo.loaded

(***************************************************************************)
(* UIDTracker (uid_tracker.py)                                             *)
(***************************************************************************)
DigitValue(c) == CASE c = "0" -> 0 [] c = "1" -> 1 [] c = "2" -> 2

\* int(uid) succeeds: decimal digits, white space around them allowed
IsInt(uid) == Strip(uid) # <<>> /\ \A i \in 1..Len(Strip(uid)) : Strip(uid)[i] \in Digits

RECURSIVE DecimalValue(_)
DecimalValue(digits) ==
    IF digits = <<>> THEN 0
    ELSE 10 * DecimalValue(SubSeq(digits, 1, Len(digits) - 1)) + DigitValue(digits[Len(digits)])

\* int(uid)
IntOf(uid) == DecimalValue(Strip(uid))

U_1 == <<"1">>
U_2 == <<"2">>
U_02 == <<"0", "2">>
U_10 == <<"1", "0">>
U_padded == <<" ", "1", "2">>
U_text == <<"1", "x">>

\* uid arguments: decimal strings, a text that is no number, and None or ""
UidArgs == {U_1, U_2, U_02, U_10, U_padded, U_text, <<>>}

\* email arguments
AccountArgs == {E_ag, E_agPadded, E_nl}

Account(last_uid, last_run) == [tracked |-> TRUE, last_uid |-> last_uid, last_run |-> last_run]

\* last_run is "now" when the call in progress wrote it and "earlier" otherwise
Aged(data) ==
    [account \in DOMAIN data |->
        IF data[account].tracked THEN [data[account] EXCEPT !.last_run = "earlier"]
        ELSE data[account]]

\* the UID is stored whatever the stored one is
update_last_uid_overwrite(data, email, uid, force_timestamp) ==
    IF ~IsInt(uid) THEN data
    ELSE [data EXCEPT ![Lower(Strip(email))] = Account(uid, "now")]

\* UIDTracker.update_last_uid(email, uid, force_timestamp): self.data after the call
update_last_uid(data, email, uid, force_timestamp) ==
    LET key == Lower(Strip(email))
        current_data == data[key]
    IN  IF ~IsInt(uid) THEN data
        ELSE IF /\ current_data.tracked
                /\ current_data.last_uid # <<>>
                /\ IsInt(current_data.last_uid)
                /\ IntOf(current_data.last_uid) > IntOf(uid)
        THEN IF force_timestamp THEN [data EXCEPT ![key].last_run = "now"] ELSE data
        ELSE [data EXCEPT ![key] = Account(uid, "now")]

\* last_run.json as _load finds it: no entry, an entry, an entry with a last_uid
\* that is no number
LoadedAccounts == {NoAccount, Account(U_2, "earlier"), Account(U_text, "earlier")}

\* the state after get_uid_tracker(tracker_file)
InitTracker ==
    /\ ruleTable = <<>>
    /\ repo = [loaded |-> FALSE, filters |-> <<>>]
    /\ lastCall = Call("init", <<>>, "None")
    /\ ner = NoTables
    /\ candidates = <<>>
    /\ memo = NoMemo
    /\ config = DefaultConfig
    /\ emailFilter = NoEmailFilter
    /\ tracker \in [TrackedAccounts -> LoadedAccounts]
    /\ workflow = NoWorkflow
    /\ apiClient = NoClient
    /\ jobs = NoJobs

NotTracker == <<ruleTable, repo, resolverVars, filterVars, processVars>>

\* UIDTracker.update_last_uid
UpdateLastUid(email, uid, force_timestamp) ==
    /\ lastCall.op \in IdleOps
    /\ tracker' = update_last_uid(tracker, email, uid, force_timestamp)
    /\ lastCall' = Call("update_last_uid",
                        [email |-> email, uid |-> uid, force_timestamp |-> force_timestamp], "None")
    /\ UNCHANGED NotTracker

\* UIDTracker.get_last_uid
GetLastUid(email) ==
    /\ lastCall.op \in IdleOps
    /\ lastCall' = Call("get_last_uid", email,
                        IF tracker[Lower(Strip(email))].tracked
                        THEN tracker[Lower(Strip(email))].last_uid ELSE <<>>)
    /\ UNCHANGED <<NotTracker, tracker>>

\* UIDTracker.remove_account
RemoveAccount(email) ==
    /\ lastCall.op \in IdleOps
    /\ tracker' = [tracker EXCEPT ![Lower(Strip(email))] = NoAccount]
    /\ lastCall' = Call("remove_account", email, "None")
    /\ UNCHANGED NotTracker

\* UIDTracker.reset_all
ResetAll ==
    /\ lastCall.op \in IdleOps
    /\ tracker' = NoTracker
    /\ lastCall' = Call("reset_all", <<>>, "None")
    /\ UNCHANGED NotTracker

\* the call returns and time passes until the next one
ReturnLater ==
    /\ lastCall.op \notin IdleOps
    /\ lastCall' = Call("returned", <<>>, "None")
    /\ tracker' = Aged(tracker)
    /\ UNCHANGED NotTracker

NextTracker ==
    \/ ReturnLater
    \/ /\ lastCall.op \in IdleOps
       /\ \E email \in AccountArgs, uid \in UidArgs, force_timestamp \in BOOLEAN :
             UpdateLastUid(email, uid, force_timestamp)
    \/ /\ lastCall.op \in IdleOps
       /\ \E email \in AccountArgs : GetLastUid(email)
    \/ /\ lastCall.op \in IdleOps
       /\ \E email \in AccountArgs : RemoveAccount(email)
    \/ ResetAll

SpecTracker == InitTracker /\ [][NextTracker]_vars

(***************************************************************************)
(* C18: the stored UID never decreases                                     *)
(***************************************************************************)
C18_Stored(account) == account.tracked /\ IsInt(account.last_uid)

C18_Step(before, after, uid, force_timestamp) ==
    IF ~IsInt(uid) THEN after = before
    ELSE /\ C18_Stored(after)
         /\ IntOf(after.last_uid) =
                IF C18_Stored(before) THEN Max(IntOf(before.last_uid), IntOf(uid)) ELSE IntOf(uid)
         /\ C18_Stored(before) => IntOf(after.last_uid) >= IntOf(before.last_uid)
         /\ C18_Stored(before) /\ IntOf(uid) < IntOf(before.last_uid) =>
                /\ after.last_uid = before.last_uid
                /\ after.last_run = IF force_timestamp THEN "now" ELSE before.last_run

\* C18: in a call of update_last_uid the stored last_uid of the account does not
\* decrease: after a call with an integer UID it is the maximum of the stored and the
\* new UID; a lower UID leaves last_uid as it is and refreshes last_run only under
\* force_timestamp; a UID that is no integer changes nothing; the other accounts
\* are left alone
C18_NeverDecreases ==
    [][lastCall'.op = "update_last_uid" =>
          LET key == Lower(Strip(lastCall'.arg.email))
          IN  /\ C18_Step(tracker[key], tracker'[key], lastCall'.arg.uid,
                          lastCall'.arg.force_timestamp)
              /\ \A other \in TrackedAccounts \ {key} : tracker'[other] = tracker[other]]_vars

\* a call with a UID below the stored one and force_timestamp: the stored UID stays
\* and last_run is refreshed
C18_Witness ==
    /\ lastCall.op = "update_last_uid"
    /\ lastCall.arg.force_timestamp
    /\ IsInt(lastCall.arg.uid)
    /\ LET account == tracker[Lower(Strip(lastCall.arg.email))]
       IN  /\ account.tracked
           /\ account.last_uid = U_10
           /\ IntOf(lastCall.arg.uid) = 2
           /\ account.last_run = "now"

(***************************************************************************)
(* EmailExtractionService.run (service.py)                                 *)
(***************************************************************************)
\* the telemetry and reporting sinks of a run
Sinks == {"activity_log", "run_status", "execution_log", "json_report", "smtp"}

\* a failure of the job-activity bulk log comes out of the sink as an exception
SinkFailure_activityRaises(sink) == IF sink = "activity_log" THEN "raises" ELSE "swallowed"

\* what a sink does when its backend fails: WorkflowManager.update_run_status,
\* _persist_execution_log and _save_json_report log the exception and return;
\* EmailReporter.send_report and JobActivityLogUtil.log_activities_bulk do the same
SinkFailure(sink) == "swallowed"

SinkRaises(sink, failing) == sink \in failing /\ SinkFailure(sink) = "raises"

\* a result of candidate_runner.run(candidate)
CandidateResult(email, status, last_uid, extracted_contacts) ==
    [email |-> email, status |-> status, last_uid |-> last_uid,
     extracted_contacts |-> extracted_contacts]

X_first == CandidateResult(E_ag, "success", U_2, <<K_a>>)
X_second == CandidateResult(E_nl, "success", U_10, <<K_li, K_n>>)
X_nothingNew == CandidateResult(E_nl, "success", <<>>, <<>>)
X_failed == CandidateResult(E_nl, "failed", <<>>, <<>>)
X_sameInbox == CandidateResult(E_agPadded, "success", U_1, <<K_five>>)
\* a row without an email: candidate.get("email") is None
X_noEmail == CandidateResult(<<>>, "success", U_1, <<>>)

CandidatePool == {X_first, X_second, X_nothingNew, X_failed, X_sameInbox, X_noEmail}

\* the candidates get_active_candidates returns, each with the result its run gives
CandidateLists == SeqsUpTo(CandidatePool, MaxBatch)

\* what vendor_util.save_contacts does in Phase 2
SaveAnswers == {"inserted_all", "inserted_none", "raises"}

\* a row that is skipped is not counted
RECURSIVE CandidateLoop_skipsUncounted(_)
CandidateLoop_skipsUncounted(cands) ==
    IF cands = <<>> THEN [candidate_results |-> <<>>, seen_candidate_emails |-> {}, skipped |-> 0]
    ELSE LET before == CandidateLoop_skipsUncounted(SubSeq(cands, 1, Len(cands) - 1))
             candidate == cands[Len(cands)]
             cand_email == Lower(Strip(candidate.email))
         IN  IF cand_email # <<>> /\ cand_email \in before.seen_candidate_emails
             THEN before
             ELSE [candidate_results |-> Append(before.candidate_results, candidate),
                   seen_candidate_emails |->
                       before.seen_candidate_emails \cup (IF cand_email # <<>> THEN {cand_email} ELSE {}),
                   skipped |-> before.skipped]

\* Phase 1: a candidate whose inbox was processed in this run is skipped and counted
\* as failed
RECURSIVE CandidateLoop(_)
CandidateLoop(cands) ==
    IF cands = <<>> THEN [candidate_results |-> <<>>, seen_candidate_emails |-> {}, skipped |-> 0]
    ELSE LET before == CandidateLoop(SubSeq(cands, 1, Len(cands) - 1))
             candidate == cands[Len(cands)]
             cand_email == Lower(Strip(candidate.email))
         IN  IF cand_email # <<>> /\ cand_email \in before.seen_candidate_emails
             THEN [before EXCEPT !.skipped = @ + 1]
             ELSE [candidate_results |-> Append(before.candidate_results, candidate),
                   seen_candidate_emails |->
                       before.seen_candidate_emails \cup (IF cand_email # <<>> THEN {cand_email} ELSE {}),
                   skipped |-> before.skipped]

RECURSIVE all_extracted_contacts(_)
all_extracted_contacts(results) ==
    IF results = <<>> THEN <<>>
    ELSE all_extracted_contacts(SubSeq(results, 1, Len(results) - 1))
         \o (IF results[Len(results)].status = "success"
             THEN results[Len(results)].extracted_contacts ELSE <<>>)

CountStatus(results, successful) ==
    Cardinality({i \in 1..Len(results) : (results[i].status = "success") = successful})

\* _finalize_summary
finalize_summary(results, total_contacts, total_extracts, total_failed, fatal_error) ==
    [total_candidates |-> Len(results),
     success_count |-> CountStatus(results, TRUE),
     failure_count |-> CountStatus(results, FALSE),
     total_contacts_inserted |-> total_contacts,
     total_extracts_inserted |-> total_extracts,
     total_candidates_failed |-> total_failed,
     fatal_error |-> fatal_error]

\* the candidates whose UID the final flush writes
Flushable(results) ==
    SelectSeq(results, LAMBDA r : r.status = "success" /\ r.last_uid # <<>> /\ r.email # <<>>)

\* the flush without force_timestamp
RECURSIVE FlushUids_unforced(_, _)
FlushUids_unforced(data, results) ==
    IF results = <<>> THEN data
    ELSE update_last_uid(FlushUids_unforced(data, SubSeq(results, 1, Len(results) - 1)),
                         results[Len(results)].email, results[Len(results)].last_uid, FALSE)

\* the final UID flush: update_last_uid(result.email, result.last_uid, force_timestamp=True)
RECURSIVE FlushUids(_, _)
FlushUids(data, results) ==
    IF results = <<>> THEN data
    ELSE update_last_uid(FlushUids(data, SubSeq(results, 1, Len(results) - 1)),
                         results[Len(results)].email, results[Len(results)].last_uid, TRUE)

\* the calls run() makes to the candidate runner and to save_contacts, in order
RunnerCall(row) == [call |-> "candidate_runner.run", row |-> row, contacts |-> <<>>]
SaveCall(contacts) == [call |-> "save_contacts", row |-> 0, contacts |-> contacts]

\* the row was seen before: cand_email and cand_email in seen_candidate_emails
SeenBefore(cands, row) ==
    /\ Lower(Strip(cands[row].email)) # <<>>
    /\ Lower(Strip(cands[row].email))
           \in CandidateLoop(SubSeq(cands, 1, row - 1)).seen_candidate_emails

\* every row is handed to the runner
RECURSIVE RunnerCalls_everyRow(_)
RunnerCalls_everyRow(cands) ==
    IF cands = <<>> THEN <<>>
    ELSE RunnerCalls_everyRow(SubSeq(cands, 1, Len(cands) - 1)) \o <<RunnerCall(Len(cands))>>

\* Phase 1: result = self.candidate_runner.run(candidate) for the rows not skipped
RECURSIVE RunnerCalls(_)
RunnerCalls(cands) ==
    IF cands = <<>> THEN <<>>
    ELSE RunnerCalls(SubSeq(cands, 1, Len(cands) - 1))
         \o (IF SeenBefore(cands, Len(cands)) THEN <<>> ELSE <<RunnerCall(Len(cands))>>)

\* the contacts of each successful candidate are saved as soon as its run returns
RECURSIVE RunEvents_savePerCandidate(_, _, _)
RunEvents_savePerCandidate(cands, source_ok, vendor_util) ==
    IF ~source_ok \/ cands = <<>> THEN <<>>
    ELSE LET row == Len(cands)
             c == cands[row]
         IN  RunEvents_savePerCandidate(SubSeq(cands, 1, row - 1), source_ok, vendor_util)
             \o (IF SeenBefore(cands, row) THEN <<>>
                 ELSE <<RunnerCall(row)>>
                      \o (IF c.status = "success" /\ c.extracted_contacts # <<>> /\ vendor_util
                          THEN <<SaveCall(c.extracted_contacts)>> ELSE <<>>))

\* Phase 1 and Phase 2: the runner calls, then one save_contacts call when there are
\* contacts and a vendor_util
RunEvents(cands, source_ok, vendor_util) ==
    IF ~source_ok \/ cands = <<>> THEN <<>>
    ELSE LET contacts == all_extracted_contacts(CandidateLoop(cands).candidate_results)
         IN  RunnerCalls(cands)
             \o (IF contacts # <<>> /\ vendor_util THEN <<SaveCall(contacts)>> ELSE <<>>)

\* the except branch of run(): the summary and the failed status are reported and
\* the exception is raised again
FatalOutcome(results, saved, total_contacts, total_failed, flushed) ==
    [saved |-> saved, status |-> "failed",
     summary |-> finalize_summary(results, total_contacts, 0, total_failed, TRUE),
     flushed |-> flushed, raised |-> TRUE]

\* the final flush is made only after a bulk save that went through
RunOutcome_flushAfterSave(cands, source_ok, vendor_util, save, failing) ==
    LET loop == CandidateLoop(cands)
        results == loop.candidate_results
        total_failed == loop.skipped + CountStatus(results, FALSE)
        contacts == all_extracted_contacts(results)
        saved == IF contacts # <<>> /\ vendor_util THEN contacts ELSE <<>>
        total_contacts == IF saved # <<>> /\ save = "inserted_all" THEN Len(contacts) ELSE 0
        overall_status == IF total_failed = Len(cands) THEN "failed"
                          ELSE IF total_failed > 0 THEN "partial_success"
                          ELSE "success"
        flushed == IF ~vendor_util \/ (saved # <<>> /\ save = "raises") THEN <<>>
                   ELSE Flushable(results)
    IN  IF ~source_ok THEN FatalOutcome(<<>>, <<>>, 0, 0, <<>>)
        ELSE IF cands = <<>>
        THEN [saved |-> <<>>, status |-> "success",
              summary |-> finalize_summary(<<>>, 0, 0, 0, FALSE),
              flushed |-> <<>>, raised |-> FALSE]
        ELSE [saved |-> saved, status |-> overall_status,
              summary |-> finalize_summary(results, total_contacts, total_contacts, total_failed,
                                           FALSE),
              flushed |-> flushed, raised |-> FALSE]

\* run(): what is handed to save_contacts, the status and the summary reported, the
\* results whose UID is flushed and whether run() raises.  A save that succeeds
\* reports every contact inserted or none.
RunOutcome(cands, source_ok, vendor_util, save, failing) ==
    LET loop == CandidateLoop(cands)
        results == loop.candidate_results
        total_failed == loop.skipped + CountStatus(results, FALSE)
        contacts == all_extracted_contacts(results)
        saved == IF contacts # <<>> /\ vendor_util THEN contacts ELSE <<>>
        total_contacts == IF saved # <<>> /\ save = "inserted_all" THEN Len(contacts) ELSE 0
        overall_status == IF total_failed = Len(cands) THEN "failed"
                          ELSE IF total_failed > 0 THEN "partial_success"
                          ELSE "success"
    IN  IF ~source_ok THEN FatalOutcome(<<>>, <<>>, 0, 0, <<>>)
        ELSE IF cands = <<>>
        THEN [saved |-> <<>>, status |-> "success",
              summary |-> finalize_summary(<<>>, 0, 0, 0, FALSE),
              flushed |-> <<>>, raised |-> FALSE]
        ELSE IF \/ vendor_util /\ results # <<>> /\ SinkRaises("activity_log", failing)
                \/ SinkRaises("run_status", failing)
                \/ SinkRaises("execution_log", failing)
        THEN FatalOutcome(results, saved, total_contacts, total_failed, <<>>)
        ELSE IF SinkRaises("json_report", failing) \/ SinkRaises("smtp", failing)
        THEN FatalOutcome(results, saved, total_contacts, total_failed, Flushable(results))
        ELSE [saved |-> saved, status |-> overall_status,
              summary |-> finalize_summary(results, total_contacts, total_contacts, total_failed,
                                           FALSE),
              flushed |-> Flushable(results), raised |-> FALSE]

ServiceAccounts == {NoAccount, Account(U_10, "earlier")}

\* the state after EmailExtractionService(candidate_source, workflow_manager, run_id)
InitService ==
    /\ ruleTable = <<>>
    /\ repo = [loaded |-> FALSE, filters |-> <<>>]
    /\ lastCall = Call("init", <<>>, "None")
    /\ ner = NoTables
    /\ candidates = <<>>
    /\ memo = NoMemo
    /\ config = DefaultConfig
    /\ emailFilter = NoEmailFilter
    /\ tracker \in [TrackedAccounts -> ServiceAccounts]
    /\ workflow = NoWorkflow
    /\ apiClient = NoClient
    /\ jobs = NoJobs

\* EmailExtractionService.run: failing holds the sinks whose backend fails during
\* the run
Run(cands, source_ok, vendor_util, save, failing) ==
    /\ lastCall.op \in IdleOps
    /\ \E outcome \in {RunOutcome(cands, source_ok, vendor_util, save, failing)} :
          /\ lastCall' = [op |-> "run",
                          arg |-> [candidates |-> cands, source_ok |-> source_ok,
                                   vendor_util |-> vendor_util, save |-> save,
                                   failing |-> failing],
                          saved |-> outcome.saved, status |-> outcome.status,
                          summary |-> outcome.summary, flushed |-> outcome.flushed,
                          raised |-> outcome.raised,
                          events |-> RunEvents(cands, source_ok, vendor_util)]
          /\ tracker' = FlushUids(tracker, outcome.flushed)
    /\ UNCHANGED NotTracker

\* the collaborators of a run: get_active_candidates raises; the API client is
\* unavailable and there is no vendor_util; or both work and save_contacts answers
RunEnvironments ==
    {[source_ok |-> FALSE, vendor_util |-> TRUE, save |-> "inserted_all"],
     [source_ok |-> TRUE, vendor_util |-> FALSE, save |-> "inserted_none"]}
    \cup {[source_ok |-> TRUE, vendor_util |-> TRUE, save |-> save] : save \in SaveAnswers}

\* the sinks that fail during a run: none, one, or all of them
FailingSinks == {{}} \cup {{sink} : sink \in Sinks} \cup {Sinks}

NextService ==
    \/ ReturnLater
    \/ /\ lastCall.op \in IdleOps
       /\ \E cands \in CandidateLists, env \in RunEnvironments, failing \in FailingSinks :
             Run(cands, env.source_ok, env.vendor_util, env.save, failing)

SpecService == InitService /\ [][NextService]_vars

(***************************************************************************)
(* C16: a failure of the bulk save                                         *)
(***************************************************************************)
\* a run whose call of save_contacts raised
C16_SaveRaised == lastCall.op = "run" /\ lastCall.saved # <<>> /\ lastCall.arg.save = "raises"

\* the same run with a save that succeeds and inserts nothing
C16_QuietRun ==
    RunOutcome(lastCall.arg.candidates, lastCall.arg.source_ok, lastCall.arg.vendor_util,
               "inserted_none", lastCall.arg.failing)

\* C16 (first half): when save_contacts raises during the bulk save, run() catches
\* it at the call site and does not raise
C16_SaveFailureCaught == C16_SaveRaised => ~lastCall.raised

\* C16 (as it is): when save_contacts raises, the status and the summary reported are
\* those of a run whose save succeeded and inserted nothing
C16_SaveFailureSilent ==
    C16_SaveRaised =>
        /\ lastCall.status = C16_QuietRun.status
        /\ lastCall.summary = C16_QuietRun.summary

\* C16: when save_contacts raises during the bulk save, run() does not raise and the
\* run status and the run summary record the save stage as failed
C16_SaveFailureSurfaced ==
    C16_SaveRaised =>
        /\ ~lastCall.raised
        /\ \/ lastCall.status # "success"
           \/ lastCall.summary.fatal_error
           \/ lastCall.summary # C16_QuietRun.summary

\* every candidate succeeded, save_contacts raised, and the run is reported success
C16_ReportedSuccess ==
    /\ C16_SaveRaised
    /\ lastCall.summary.failure_count = 0
    /\ lastCall.status = "success"
    /\ ~lastCall.summary.fatal_error

C19_Call == lastCall.op \in {"score_content", "bot_is_recruiter_email"}

\* every (content rule, keyword of that rule) of the EmailFilter
C19_Keywords ==
    UNION {{<<i, k>> : k \in 1..Len(Bot_content_rules[i].keywords)} :
              i \in 1..Len(Bot_content_rules)}

C19_InSubject(kw) == Contains(Lower(lastCall.arg.subject), kw)
C19_InBody(kw) == Contains(Lower(lastCall.arg.body), kw)

\* the keyword is present in the field its rule targets
C19_Present(p) ==
    LET rule == Bot_content_rules[p[1]]
        kw == rule.keywords[p[2]]
    IN  CASE rule.target = "subject" -> C19_InSubject(kw)
          [] rule.target = "body" -> C19_InBody(kw)
          [] rule.target = "both" -> C19_InSubject(kw) \/ C19_InBody(kw)
          [] OTHER -> FALSE

RECURSIVE C19_WeightOf(_)
C19_WeightOf(ps) ==
    IF ps = {} THEN 0
    ELSE LET p == CHOOSE q \in ps : TRUE
         IN  Bot_content_rules[p[1]].weight + C19_WeightOf(ps \ {p})

\* the sum of the rule's weight over the keywords present
C19_Sum == C19_WeightOf({p \in C19_Keywords : C19_Present(p)})

\* the configured content_score_threshold, 2 when it is not configured
C19_Threshold ==
    IF config.content_score_threshold = <<>> THEN 2 ELSE config.content_score_threshold[1]

C19_WithoutClassifier == ~(emailFilter.use_ml /\ emailFilter.ml_loaded)

C19_WitnessThreshold ==
    /\ lastCall.op = "bot_is_recruiter_email"
    /\ ~Bot_is_junk_email(lastCall.arg.from)
    /\ C19_WithoutClassifier
    /\ config.content_score_threshold = <<5>>
    /\ lastCall.result = "True"

(***************************************************************************)
(* C20  a client never passes the threshold, so the override is idle       *)
(***************************************************************************)
C20_Call == lastCall.op = "resolve"

\* the positions of the collected candidates no other candidate beats
C20_Top ==
    {i \in 1..Len(candidates) :
        \A j \in 1..Len(candidates) : candidates[j].confidence <= candidates[i].confidence}

\* the first of the collected candidates with the highest confidence
C20_First == CHOOSE i \in C20_Top : \A j \in C20_Top : i <= j

\* C20: in a resolver call every candidate of kind client carries the 0.50
\* penalty and stays below 0.70; the company returned is the first collected
\* candidate of the highest confidence, as it is without the preference of a
\* vendor over a client, and so a candidate of maximum confidence among all
\* collected.
C20_OverrideNeverFires ==
    C20_Call =>
        /\ \A i \in 1..Len(candidates) :
               candidates[i].type = "client" =>
                   /\ candidates[i].confidence <= C4_Prior(candidates[i].source) - 50
                   /\ candidates[i].confidence < 70
        /\ lastCall.result # <<>> =>
               /\ lastCall.result = candidates[C20_First].name
               /\ \E i \in C20_Top : candidates[i].name = lastCall.result

\* a call that collected a client from the span and a vendor from the domain
\* and returned the vendor
C20_Witness ==
    /\ C20_Call
    /\ \E i \in 1..Len(candidates) :
          candidates[i].type = "client" /\ candidates[i].source = "span"
    /\ \E i \in 1..Len(candidates) :
          /\ candidates[i].type = "vendor"
          /\ candidates[i].confidence >= 70
          /\ lastCall.result = candidates[i].name

(***************************************************************************)
(* C21: the final UID flush after a bulk save that did not happen          *)
(***************************************************************************)
\* the results of the candidates that were run
C21_Results == CandidateLoop(lastCall.arg.candidates).candidate_results

\* a run whose bulk save raised, or was skipped for want of a vendor_util
C21_NotSaved ==
    /\ lastCall.op = "run"
    /\ lastCall.arg.source_ok
    /\ lastCall.arg.candidates # <<>>
    /\ \/ ~lastCall.arg.vendor_util
       \/ lastCall.saved # <<>> /\ lastCall.arg.save = "raises"

\* the successful candidates that report a UID and an address
C21_Successful ==
    {i \in 1..Len(C21_Results) :
        /\ C21_Results[i].status = "success"
        /\ C21_Results[i].last_uid # <<>>
        /\ C21_Results[i].email # <<>>}

\* C21: when save_contacts raises, or the save is skipped because there is no
\* vendor_util, run() does not raise and still makes the final UID flush: for
\* every successful candidate the tracker holds a UID at least the candidate's
\* last_uid with last_run written by this run, so the next run starts above
\* the emails whose contacts were not saved.
C21_FlushWithoutSave ==
    C21_NotSaved =>
        /\ ~lastCall.raised
        /\ Len(lastCall.flushed) = Cardinality(C21_Successful)
        /\ \A i \in C21_Successful :
               LET account == tracker[Lower(Strip(C21_Results[i].email))]
               IN  /\ account.tracked
                   /\ IsInt(account.last_uid)
                   /\ IntOf(account.last_uid) >= IntOf(C21_Results[i].last_uid)
                   /\ account.last_run = "now"

\* save_contacts raised on the contacts of a candidate that was not tracked
\* before, and the tracker now holds the candidate's UID
C21_Witness ==
    /\ C21_NotSaved
    /\ lastCall.arg.vendor_util
    /\ lastCall.saved = <<K_a>>
    /\ lastCall.summary.total_contacts_inserted = 0
    /\ C21_Successful # {}
    /\ tracker[E_ag] = Account(U_2, "now")

\* the save was skipped without a vendor_util and the UIDs were flushed
C21_WitnessSkipped ==
    /\ C21_NotSaved
    /\ ~lastCall.arg.vendor_util
    /\ all_extracted_contacts(C21_Results) # <<>>
    /\ lastCall.saved = <<>>
    /\ Len(lastCall.flushed) = 2

(***************************************************************************)
(* run_workflow.main (run_workflow.py)                                     *)
(***************************************************************************)
\* the statuses for which update_run_status sets finished_at that main and the
\* service pass
TerminalStatuses == {"success", "partial_success", "failed"}

\* sys.exit(code): SystemExit is no Exception and passes the except clauses
Exit(w, code) == [w EXCEPT !.pc = "exited", !.exit_code = code]

\* manager.update_run_status(run_id, status, ...): the call is made whether or not
\* the PATCH goes through
update_run_status(w, status) == [w EXCEPT !.reported = Append(@, status)]

\* the process as main() starts, with the --dry-run and --schedule-id arguments
InitWorkflow ==
    /\ ruleTable = <<>>
    /\ repo = [loaded |-> FALSE, filters |-> <<>>]
    /\ lastCall = Call("init", <<>>, "None")
    /\ ner = NoTables
    /\ candidates = <<>>
    /\ memo = NoMemo
    /\ config = DefaultConfig
    /\ emailFilter = NoEmailFilter
    /\ tracker \in [TrackedAccounts -> ServiceAccounts]
    /\ \E dry_run \in BOOLEAN, schedule_id \in BOOLEAN :
          workflow = [pc |-> "main", dry_run |-> dry_run, schedule_id |-> schedule_id,
                      started |-> FALSE, reported |-> <<>>, exit_code |-> "none"]
    /\ apiClient = NoClient
    /\ jobs = NoJobs

NotWorkflow == <<ruleTable, repo, resolverVars, filterVars, apiClient, jobs>>

\* manager = WorkflowManager(); config = manager.get_workflow_config(workflow_key):
\* the configuration is found, or is missing or inactive, or the manager raises
GetWorkflowConfig(answer) ==
    /\ workflow.pc = "main"
    /\ workflow' = IF answer = "found" THEN [workflow EXCEPT !.pc = "configured"]
                   ELSE Exit(workflow, "1")
    /\ UNCHANGED <<NotWorkflow, lastCall, tracker>>

\* run_id = manager.start_run(...): a failure of the POST is raised to the outer
\* except clause of main
StartRun(api_ok) ==
    /\ workflow.pc = "configured"
    /\ workflow' = IF api_ok THEN [workflow EXCEPT !.pc = "started", !.started = TRUE]
                   ELSE Exit(workflow, "1")
    /\ UNCHANGED <<NotWorkflow, lastCall, tracker>>

\* step 3: credentials_list_sql is checked and DatabaseCandidateSource constructed
InitSource(credentials_sql, source_built) ==
    /\ workflow.pc = "started"
    /\ workflow' = [workflow EXCEPT !.pc = IF ~credentials_sql \/ ~source_built THEN "failing"
                                            ELSE IF workflow.dry_run THEN "dry_run"
                                            ELSE "service"]
    /\ UNCHANGED <<NotWorkflow, lastCall, tracker>>

\* the dry-run branch: the query finds no candidate, finds some, or raises
DryRun(answer) ==
    /\ workflow.pc = "dry_run"
    /\ workflow' = Exit(workflow, IF answer = "raises" THEN "1" ELSE "0")
    /\ UNCHANGED <<NotWorkflow, lastCall, tracker>>

\* step 4: EmailExtractionService(...) and service.run(...); the service reports the
\* status of the run through _update_run_status
RunService(service_built, cands, source_ok, vendor_util, save, failing) ==
    /\ workflow.pc = "service"
    /\ IF ~service_built
       THEN /\ workflow' = [workflow EXCEPT !.pc = "failing"]
            /\ UNCHANGED <<lastCall, tracker>>
       ELSE \E outcome \in {RunOutcome(cands, source_ok, vendor_util, save, failing)} :
               /\ lastCall' = [op |-> "run",
                               arg |-> [candidates |-> cands, source_ok |-> source_ok,
                                        vendor_util |-> vendor_util, save |-> save,
                                        failing |-> failing],
                               saved |-> outcome.saved, status |-> outcome.status,
                               summary |-> outcome.summary, flushed |-> outcome.flushed,
                               raised |-> outcome.raised,
                               events |-> RunEvents(cands, source_ok, vendor_util)]
               /\ tracker' = FlushUids(tracker, outcome.flushed)
               /\ workflow' = [update_run_status(workflow, outcome.status) EXCEPT
                                   !.pc = IF outcome.raised THEN "failing" ELSE "schedule"]
    /\ UNCHANGED NotWorkflow

\* step 5: manager.update_schedule_status(schedule_id) logs its own failures
UpdateScheduleStatus ==
    /\ workflow.pc = "schedule"
    /\ workflow' = Exit(workflow, "0")
    /\ UNCHANGED <<NotWorkflow, lastCall, tracker>>

\* the inner except clause of main: update_run_status(run_id, 'failed', ...) and
\* sys.exit(1)
HandleFailure ==
    /\ workflow.pc = "failing"
    /\ workflow' = Exit(update_run_status(workflow, "failed"), "1")
    /\ UNCHANGED <<NotWorkflow, lastCall, tracker>>

NextWorkflow ==
    \/ \E answer \in {"found", "missing", "raises"} : GetWorkflowConfig(answer)
    \/ \E api_ok \in BOOLEAN : StartRun(api_ok)
    \/ \E credentials_sql \in BOOLEAN, source_built \in BOOLEAN :
          InitSource(credentials_sql, source_built)
    \/ \E answer \in {"none", "some", "raises"} : DryRun(answer)
    \/ /\ workflow.pc = "service"
       /\ \E service_built \in BOOLEAN, cands \in CandidateLists, env \in RunEnvironments,
             failing \in {{}, Sinks} :
             RunService(service_built, cands, env.source_ok, env.vendor_util, env.save, failing)
    \/ UpdateScheduleStatus
    \/ HandleFailure

\* the process keeps running until it exits
SpecWorkflow == InitWorkflow /\ [][NextWorkflow]_vars /\ WF_vars(NextWorkflow)

(***************************************************************************)
(* C22: every started run is closed with a terminal status                 *)
(***************************************************************************)
C22_TerminalReported ==
    \E i \in 1..Len(workflow.reported) : workflow.reported[i] \in TerminalStatuses

C22_ExtractionRunClosed == (workflow.started /\ ~workflow.dry_run) ~> C22_TerminalReported

\* C22 (without --dry-run): the process does not exit from a started run before a
\* terminal status was passed to update_run_status
C22_NoExitBeforeClosed ==
    (workflow.pc = "exited" /\ workflow.started /\ ~workflow.dry_run) => C22_TerminalReported

\* a dry run exits with code 0 after start_run succeeded, and update_run_status was
\* never called
C22_DryRunLeftRunning ==
    /\ workflow.pc = "exited"
    /\ workflow.started
    /\ workflow.dry_run
    /\ workflow.exit_code = "0"
    /\ workflow.reported = <<>>

(***************************************************************************)
(* APIClient._handle_request_with_retry (http_api.py)                      *)
(***************************************************************************)
\* max_retries = 3
MaxRetries == 3

\* what the server does with a request: a status code, or the transport fails
\* (httpx.RequestError)
Answers == {"200", "500", "401", "429", "error"}

\* an APIClient between two calls
IdleClient(token_valid) ==
    [pc |-> "idle", token_valid |-> token_valid, attempt |-> 0, trace |-> <<>>,
     outcome |-> "none"]

Raise(c, error) == [c EXCEPT !.pc = "done", !.outcome = error]

\* continue, or the end of the for loop: raise Exception("Max retries exceeded ...")
NextAttempt(c) ==
    IF c.attempt + 1 < MaxRetries THEN [c EXCEPT !.pc = "request", !.attempt = @ + 1]
    ELSE Raise([c EXCEPT !.attempt = @ + 1], "max_retries")

\* authenticate(): POST /api/login; False on a status other than 200, a missing
\* access_token or an exception
authenticate(c, login_ok) ==
    [c EXCEPT !.token_valid = IF login_ok THEN TRUE ELSE @,
              !.trace = Append(@, IF login_ok THEN "login_ok" ELSE "login_failed")]

\* _ensure_auth() before the first attempt
ensure_auth(c, login_ok) ==
    IF c.token_valid THEN [c EXCEPT !.pc = "request"]
    ELSE IF login_ok THEN [authenticate(c, TRUE) EXCEPT !.pc = "request"]
    ELSE Raise(authenticate(c, FALSE), "authentication")

\* response = method(url, **kwargs) and the checks of the status code
send_request(c, answer) ==
    LET sent == [c EXCEPT !.trace = Append(@, answer)]
    IN  CASE answer = "401" -> [sent EXCEPT !.pc = "reauth"]
          [] answer = "429" -> NextAttempt(sent)
          [] answer = "error" ->
                 IF c.attempt = MaxRetries - 1 THEN Raise(sent, "transport") ELSE NextAttempt(sent)
          [] OTHER -> [sent EXCEPT !.pc = "done", !.outcome = "returned"]

\* a failed re-authentication is followed by the next attempt
refresh_token_lenient(c, login_ok) == NextAttempt(authenticate(c, login_ok))

\* if self.authenticate(): continue; else: raise
refresh_token(c, login_ok) ==
    IF login_ok THEN NextAttempt(authenticate(c, TRUE))
    ELSE Raise(authenticate(c, FALSE), "authentication")

\* the state after APIClient(base_url, email, password, employee_id), or with a
\* token of an earlier call
InitClient ==
    /\ ruleTable = <<>>
    /\ repo = [loaded |-> FALSE, filters |-> <<>>]
    /\ lastCall = Call("init", <<>>, "None")
    /\ ner = NoTables
    /\ candidates = <<>>
    /\ memo = NoMemo
    /\ config = DefaultConfig
    /\ emailFilter = NoEmailFilter
    /\ tracker = NoTracker
    /\ workflow = NoWorkflow
    /\ apiClient \in {IdleClient(token_valid) : token_valid \in BOOLEAN}
    /\ jobs = NoJobs

NotClient == <<senderVars, resolverVars, filterVars, trackerVars, workflow, jobs>>

\* _handle_request_with_retry is called; the token of an earlier call may have expired
HandleRequest(expired) ==
    /\ apiClient.pc = "idle"
    /\ apiClient' = [IdleClient(apiClient.token_valid /\ ~expired) EXCEPT !.pc = "ensure_auth"]
    /\ UNCHANGED NotClient

EnsureAuth(login_ok) ==
    /\ apiClient.pc = "ensure_auth"
    /\ apiClient' = ensure_auth(apiClient, login_ok)
    /\ UNCHANGED NotClient

SendRequest(answer) ==
    /\ apiClient.pc = "request"
    /\ apiClient' = send_request(apiClient, answer)
    /\ UNCHANGED NotClient

RefreshToken(login_ok) ==
    /\ apiClient.pc = "reauth"
    /\ apiClient' = refresh_token(apiClient, login_ok)
    /\ UNCHANGED NotClient

\* the call has returned or raised, and the client is used again later
CallOver ==
    /\ apiClient.pc = "done"
    /\ apiClient' = IdleClient(apiClient.token_valid)
    /\ UNCHANGED NotClient

NextClient ==
    \/ \E expired \in BOOLEAN : HandleRequest(expired)
    \/ \E login_ok \in BOOLEAN : EnsureAuth(login_ok)
    \/ \E answer \in Answers : SendRequest(answer)
    \/ \E login_ok \in BOOLEAN : RefreshToken(login_ok)
    \/ CallOver

\* the thread that made the call keeps running: requests are answered or time
\* out, and time.sleep returns
SpecClient == InitClient /\ [][NextClient]_vars /\ WF_vars(NextClient)

(***************************************************************************)
(* C23: the retry loop is bounded                                          *)
(***************************************************************************)
\* the positions of the trace at which a request was sent to the endpoint
C23_Requests == {i \in 1..Len(apiClient.trace) : apiClient.trace[i] \in Answers}

C23_Logins == {i \in 1..Len(apiClient.trace) : apiClient.trace[i] \notin Answers}

C23_Last == apiClient.trace[Len(apiClient.trace)]

\* what a call has done so far agrees with the claim
C23_Bounded ==
    apiClient.pc # "idle" =>
        /\ Cardinality(C23_Requests) <= 3
        /\ \A i \in C23_Requests :
               apiClient.trace[i] = "401" =>
                   IF i = Len(apiClient.trace) THEN apiClient.pc = "reauth"
                   ELSE (i + 1) \in C23_Logins
        /\ \A i \in C23_Logins :
               apiClient.trace[i] = "login_failed" =>
                   /\ i = Len(apiClient.trace)
                   /\ apiClient.pc = "done"
                   /\ apiClient.outcome = "authentication"
        /\ apiClient.pc = "done" =>
               /\ apiClient.outcome \in {"returned", "authentication", "transport", "max_retries"}
               /\ apiClient.outcome = "returned" =>
                      Len(apiClient.trace) > 0 /\ C23_Last \in Answers \ {"401", "429", "error"}
               /\ (/\ Cardinality(C23_Requests) = 3
                   /\ \A i \in C23_Requests : apiClient.trace[i] \in {"401", "429"}
                   /\ \A i \in C23_Logins : apiClient.trace[i] = "login_ok")
                      => apiClient.outcome = "max_retries"
               /\ (Cardinality(C23_Requests) = 3 /\ C23_Last = "error")
                      => apiClient.outcome = "transport"

C23_WitnessTransport ==
    /\ apiClient.pc = "done"
    /\ apiClient.outcome = "transport"
    /\ apiClient.trace = <<"error", "error", "error">>

(***************************************************************************)
(* C24: one bulk save, after every candidate was run                       *)
(***************************************************************************)
C24_Saves == {i \in 1..Len(lastCall.events) : lastCall.events[i].call = "save_contacts"}

C24_Runs == {i \in 1..Len(lastCall.events) : lastCall.events[i].call = "candidate_runner.run"}

\* the rows of the run the runner was called on with a result of status success
C24_SuccessfulRows ==
    {lastCall.events[i].row : i \in {j \in C24_Runs :
        lastCall.arg.candidates[lastCall.events[j].row].status = "success"}}

\* the contacts of the rows in rows, row by row
RECURSIVE C24_ContactsOf(_, _)
C24_ContactsOf(rows, upto) ==
    IF upto = 0 THEN <<>>
    ELSE C24_ContactsOf(rows, upto - 1)
         \o (IF upto \in rows THEN lastCall.arg.candidates[upto].extracted_contacts ELSE <<>>)

\* C24: in one run save_contacts is called at most once, after the last call of
\* candidate_runner.run, and it is handed the contacts of the candidates whose
\* result is success and of no other.
C24_OneSaveAfterAllRuns ==
    lastCall.op = "run" =>
        /\ Cardinality(C24_Saves) <= 1
        /\ \A i \in C24_Saves :
               /\ \A j \in C24_Runs : j < i
               /\ lastCall.events[i].contacts =
                      C24_ContactsOf(C24_SuccessfulRows, Len(lastCall.arg.candidates))
               /\ lastCall.events[i].contacts = lastCall.saved

\* two candidates were run, one failed, and the contacts of the other were saved in
\* one call after both runs
C24_Witness ==
    /\ lastCall.op = "run"
    /\ Cardinality(C24_Runs) = 2
    /\ Cardinality(C24_SuccessfulRows) = 1
    /\ Len(lastCall.events) = 3
    /\ lastCall.events[3].call = "save_contacts"
    /\ lastCall.events[3].contacts # <<>>

(***************************************************************************)
(* C25: an inbox is processed once in a run                                *)
(***************************************************************************)
C25_Call == lastCall.op = "run" /\ lastCall.arg.source_ok

\* the trimmed lower-cased email of a candidate row
C25_Inbox(row) == Lower(Strip(lastCall.arg.candidates[row].email))

\* the rows the runner was called on
C25_RanRows == {lastCall.events[i].row : i \in C24_Runs}

\* the rows whose email is the email of an earlier row
C25_LaterRows ==
    {row \in 1..Len(lastCall.arg.candidates) :
        /\ C25_Inbox(row) # <<>>
        /\ \E earlier \in 1..(row - 1) : C25_Inbox(earlier) = C25_Inbox(row)}

\* C25: in one run candidate_runner.run is called at most once for each trimmed
\* lower-cased candidate email; a row whose email an earlier row of the run has is
\* not run and is counted as a failed candidate, and every other row is run once.
C25_OneRunPerInbox ==
    C25_Call =>
        /\ Cardinality(C24_Runs) = Cardinality(C25_RanRows)
        /\ \A a \in C25_RanRows : \A b \in C25_RanRows \ {a} :
               C25_Inbox(a) # <<>> => C25_Inbox(a) # C25_Inbox(b)
        /\ C25_RanRows = (1..Len(lastCall.arg.candidates)) \ C25_LaterRows
        /\ lastCall.summary.total_candidates_failed =
               Cardinality(C25_LaterRows)
               + Cardinality({row \in C25_RanRows :
                                 lastCall.arg.candidates[row].status # "success"})

\* the second row names the inbox of the first with other case and padding: it is
\* not run, and the run reports one failed candidate
C25_Witness ==
    /\ C25_Call
    /\ Len(lastCall.arg.candidates) = 2
    /\ lastCall.arg.candidates[1].email # lastCall.arg.candidates[2].email
    /\ C25_LaterRows = {2}
    /\ C25_RanRows = {1}
    /\ lastCall.arg.candidates[2].status = "success"
    /\ lastCall.summary.total_candidates_failed = 1
    /\ lastCall.status = "partial_success"

(***************************************************************************)
(* C27: the status of a run                                                *)
(***************************************************************************)
\* a run whose source returned at least one candidate row
C27_Call ==
    lastCall.op = "run" /\ lastCall.arg.source_ok /\ lastCall.arg.candidates # <<>>

C27_Rows == Len(lastCall.arg.candidates)

\* the candidates whose run was not success, plus the duplicate rows skipped
C27_FailedCount ==
    Cardinality({row \in C25_RanRows : lastCall.arg.candidates[row].status # "success"})
    + Cardinality((1..C27_Rows) \ C25_RanRows)

\* C27: for a run with at least one candidate row, the status passed to
\* update_run_status is failed exactly when the failed count equals the number of
\* rows, partial_success exactly when it is positive and smaller, and success
\* exactly when it is zero; the failed count is the number of candidates whose run
\* was not success plus the number of skipped duplicate rows.
C27_StatusFromFailedCount ==
    C27_Call =>
        /\ lastCall.summary.total_candidates_failed = C27_FailedCount
        /\ lastCall.status = "failed" <=> C27_FailedCount = C27_Rows
        /\ lastCall.status = "partial_success" <=>
               (C27_FailedCount > 0 /\ C27_FailedCount < C27_Rows)
        /\ lastCall.status = "success" <=> C27_FailedCount = 0

\* a failed candidate and a skipped duplicate row make two rows fail of two: the run
\* is reported failed though no third candidate exists
C27_Witness ==
    /\ C27_Call
    /\ C27_Rows = 2
    /\ C25_RanRows = {1}
    /\ lastCall.arg.candidates[1].status # "success"
    /\ C27_FailedCount = 2
    /\ lastCall.status = "failed"

\* one row of two is a skipped duplicate of a successful one: partial_success
C27_WitnessPartial ==
    /\ C27_Call
    /\ C27_Rows = 2
    /\ C25_RanRows = {1}
    /\ lastCall.arg.candidates[1].status = "success"
    /\ lastCall.status = "partial_success"

(***************************************************************************)
(* C26: the final UID flush                                                *)
(***************************************************************************)
\* the step is a run that returned its summary
C26_Completed == lastCall'.op = "run" /\ ~lastCall'.raised

\* the result of a row that was run carries a UID and an email
C26_HasUid(r) == r.status = "success" /\ r.last_uid # <<>> /\ r.email # <<>>

\* the account of the result after the run: the higher of the stored and the
\* reported UID, last_run written by this run
C26_Persisted(r) ==
    LET key == Lower(Strip(r.email))
    IN  /\ tracker'[key].tracked
        /\ tracker'[key].last_run = "now"
        /\ IsInt(tracker'[key].last_uid)
        /\ IntOf(tracker'[key].last_uid) =
               IF tracker[key].tracked /\ IsInt(tracker[key].last_uid)
               THEN Max(IntOf(tracker[key].last_uid), IntOf(r.last_uid))
               ELSE IntOf(r.last_uid)

C26_WitnessNoUid ==
    /\ lastCall.op = "run"
    /\ ~lastCall.raised
    /\ lastCall.arg.candidates = <<X_nothingNew>>
    /\ lastCall.status = "success"
    /\ tracker[E_nl] = Account(U_10, "earlier")

(***************************************************************************)
(* LLMJobClassifyOrchestrator (llm_based_classifier.py) and                *)
(* LLMJobClassifier.classify (extraction/llm_classifier.py)                *)
(***************************************************************************)
\* classify: max_retries = 3
classify_max_retries == 3

\* what one POST to the LLM endpoint gives: a parsed answer labelled valid_job with a
\* confidence at or above the threshold, one below it, one labelled junk; a status
\* of 429/500/502/503/504; httpx.RequestError; an empty or unparseable body
\* (ValueError); a status raise_for_status raises on (httpx.HTTPStatusError)
LLMAnswers ==
    {"valid_job", "below_threshold", "junk", "server_error", "request_error", "empty",
     "status_error"}

AnswerSeqs == [1..classify_max_retries -> LLMAnswers]

\* format_input gave no text, fewer than five words, or more
Texts == {"none", "short", "long"}

Classified(label, is_valid) == [label |-> label, is_valid |-> is_valid, raised |-> FALSE]

\* an exception classify does not catch
ClassifyRaises == [label |-> "none", is_valid |-> FALSE, raised |-> TRUE]

\* the retry loop of classify from the given attempt on
RECURSIVE classify_attempts(_, _)
classify_attempts(answers, attempt) ==
    IF attempt = classify_max_retries THEN Classified("error", FALSE)
    ELSE LET answer == answers[attempt + 1]
         IN  IF answer = "server_error" THEN classify_attempts(answers, attempt + 1)
             ELSE IF answer \in {"request_error", "empty"}
             THEN IF attempt = classify_max_retries - 1 THEN Classified("error", FALSE)
                  ELSE classify_attempts(answers, attempt + 1)
             ELSE IF answer = "status_error" THEN ClassifyRaises
             ELSE IF answer = "valid_job" THEN Classified("valid", TRUE)
             ELSE Classified("junk", FALSE)

\* LLMJobClassifier.classify(text)
classify(text, answers) ==
    IF text \in {"none", "short"} THEN Classified("junk", FALSE)
    ELSE classify_attempts(answers, 0)

\* what classify gives over every text and every run of answers
ClassifyResults == {classify(text, answers) : text \in Texts, answers \in AnswerSeqs}

\* the ids of the raw job records, in the order the API pages them
RawIds == {1, 2, 3}

BatchSizes == {1, 2}

RECURSIVE IdsFrom(_, _)
IdsFrom(lo, hi) == IF lo > hi THEN <<>> ELSE <<lo>> \o IdsFrom(lo + 1, hi)

\* persistence.fetch_raw_jobs(limit, skip): the records of the page that are still
\* new, and the number of records the page held
fetch_raw_jobs(status, limit, skip) ==
    LET page == IdsFrom(skip + 1, Min(skip + limit, Cardinality(RawIds)))
    IN  [raw_jobs |-> SelectSeq(page, LAMBDA id : status[id] = "new"),
         total_fetched |-> Len(page)]

\* nothing was inspected yet
NoInspection == [raw_id |-> 0, label |-> "none", raised |-> FALSE, saved |-> FALSE]

\* LLMJobClassifyOrchestrator(dry_run, batch_size) before run()
Orchestrator(status, listing, dry_run, batch_size) ==
    [pc |-> "fetch", dry_run |-> dry_run, batch_size |-> batch_size, status |-> status,
     listing |-> listing, raw_jobs |-> <<>>, i |-> 0, current_skip |-> 0,
     last |-> NoInspection]

InitJobs ==
    /\ ruleTable = <<>>
    /\ repo = [loaded |-> FALSE, filters |-> <<>>]
    /\ lastCall = Call("init", <<>>, "None")
    /\ ner = NoTables
    /\ candidates = <<>>
    /\ memo = NoMemo
    /\ config = DefaultConfig
    /\ emailFilter = NoEmailFilter
    /\ tracker = NoTracker
    /\ workflow = NoWorkflow
    /\ apiClient = NoClient
    /\ \E status \in [RawIds -> {"new", "parsed"}], dry_run \in BOOLEAN, batch_size \in BatchSizes :
          jobs = Orchestrator(status, {}, dry_run, batch_size)

NotJobs == <<senderVars, resolverVars, filterVars, trackerVars, workflow, apiClient>>

\* the head of the while loop of run(): fetch a page; a page of parsed records only
\* is skipped, an empty page after a skip is fetched again from the beginning
FetchBatch ==
    /\ jobs.pc = "fetch"
    /\ \E page \in {fetch_raw_jobs(jobs.status, jobs.batch_size, jobs.current_skip)},
          first \in {fetch_raw_jobs(jobs.status, jobs.batch_size, 0)} :
          jobs' = IF page.raw_jobs # <<>>
                  THEN [jobs EXCEPT !.pc = "inspect", !.raw_jobs = page.raw_jobs, !.i = 1]
                  ELSE IF page.total_fetched > 0
                  THEN [jobs EXCEPT !.current_skip = @ + page.total_fetched]
                  ELSE IF jobs.current_skip > 0 /\ first.raw_jobs # <<>>
                  THEN [jobs EXCEPT !.pc = "inspect", !.raw_jobs = first.raw_jobs, !.i = 1,
                                    !.current_skip = 0]
                  ELSE [jobs EXCEPT !.pc = "done", !.current_skip = 0]
    /\ UNCHANGED NotJobs

\* the status of the raw record after update_raw_status(raw_id, "parsed") answered
update_raw_status(status, raw_id, status_success) ==
    IF status_success THEN [status EXCEPT ![raw_id] = "parsed"] ELSE status

\* one pass of the for loop of run() for raw_jobs[i]; after the last record of the
\* batch current_skip moves on and the while loop continues, or ends in a dry run
Inspect(result, save_success, status_success) ==
    /\ jobs.pc = "inspect"
    /\ \E raw_id \in {jobs.raw_jobs[jobs.i]} :
          LET saved == ~result.raised /\ result.is_valid /\ ~jobs.dry_run /\ save_success
              marks == /\ ~result.raised
                       /\ ~jobs.dry_run
                       /\ (result.is_valid => save_success)
              after == [jobs EXCEPT
                           !.status = IF marks THEN update_raw_status(@, raw_id, status_success)
                                      ELSE @,
                           !.listing = IF saved THEN @ \cup {raw_id} ELSE @,
                           !.last = [raw_id |-> raw_id, label |-> result.label,
                                     raised |-> result.raised, saved |-> saved]]
          IN  jobs' = IF jobs.i < Len(jobs.raw_jobs) THEN [after EXCEPT !.i = @ + 1]
                      ELSE [after EXCEPT !.pc = IF jobs.dry_run THEN "done" ELSE "fetch",
                                         !.raw_jobs = <<>>, !.i = 0,
                                         !.current_skip = @ + Len(jobs.raw_jobs)]
    /\ UNCHANGED NotJobs

\* the script is started again
RunAgain(dry_run, batch_size) ==
    /\ jobs.pc = "done"
    /\ jobs' = Orchestrator(jobs.status, jobs.listing, dry_run, batch_size)
    /\ UNCHANGED NotJobs

NextJobs ==
    \/ FetchBatch
    \/ /\ jobs.pc = "inspect"
       /\ \E result \in ClassifyResults, save_success \in BOOLEAN, status_success \in BOOLEAN :
             Inspect(result, save_success, status_success)
    \/ /\ jobs.pc = "done"
       /\ \E dry_run \in BOOLEAN, batch_size \in BatchSizes : RunAgain(dry_run, batch_size)

SpecJobs == InitJobs /\ [][NextJobs]_vars

(***************************************************************************)
(* C28: when a raw job is marked parsed                                    *)
(***************************************************************************)
\* the records whose status goes from new to parsed in the step
C28_Marked == {id \in RawIds : jobs.status[id] = "new" /\ jobs'.status[id] = "parsed"}

\* C28: in a run that is not a dry run, a raw job's status goes from new to parsed
\* only in a pass in which save_valid_job succeeded for it or the classifier
\* labelled it junk.
C28_ParsedOnlyAfterSaveOrJunk ==
    [][\A id \in C28_Marked :
          /\ ~jobs.dry_run
          /\ jobs'.last.raw_id = id
          /\ jobs'.last.saved \/ jobs'.last.label = "junk"]_vars

\* a record is marked only in its own pass of a run that is not a dry run, and only
\* when classify returned and the job was saved or was not valid
C28_MarkedInOwnPass ==
    [][\A id \in C28_Marked :
          /\ ~jobs.dry_run
          /\ jobs'.last.raw_id = id
          /\ ~jobs'.last.raised
          /\ jobs'.last.saved \/ jobs'.last.label \in {"junk", "error"}]_vars

\* a job classified valid whose save fails, and a job whose classification ended in
\* an exception, keep status new
C28_FailedSaveKeepsNew ==
    [][(/\ jobs.pc = "inspect"
        /\ \/ jobs'.last.label = "valid" /\ ~jobs'.last.saved
           \/ jobs'.last.raised)
       => jobs'.status = jobs.status]_vars

\* classify gave up after its retries and returned the label error: the record is
\* parsed though no job listing was saved for it
C28_ErrorMarkedParsed ==
    /\ ~jobs.dry_run
    /\ jobs.last.raw_id \in RawIds
    /\ jobs.last.label = "error"
    /\ ~jobs.last.saved
    /\ jobs.status[jobs.last.raw_id] = "parsed"
    /\ jobs.last.raw_id \notin jobs.listing

=============================================================================
